---- MODULE Spec2Model ----
(***************************************************************************)
(* Predictive-maintenance support modules: OperationalMonitor              *)
(* (operational_monitor.py), SensorValidator (data_explainability.py) and   *)
(* StorageManager (storage_manager.py) with the two save paths of app.py.  *)
(*                                                                         *)
(* Number conventions: probabilities are held in hundredths (0.9 -> 90),   *)
(* data-quality scores in points (100.0 -> 100), sensor values and range   *)
(* bounds in hundredths of their unit (9.5 bar -> 950).                    *)
(*                                                                         *)
(* A Python dict is a function whose DOMAIN is its set of keys.  A Python  *)
(* value whose type the code depends on is a tuple <<type name, n, ...>>:  *)
(* a number carries its value, a list or tuple its elements, None nothing. *)
(***************************************************************************)
EXTENDS Integers, Sequences, FiniteSets, TLC

VARIABLES
    prediction_history, \* OperationalMonitor.prediction_history
    accepted,           \* history variable: every record appended so far, in call order
    call,               \* the entry point invoked last and its arguments
    ret,                \* what that invocation returned or raised
    sensor_values,      \* the sensor snapshot the session holds
    alerts,             \* SensorValidator.alerts
    predictions,        \* StorageManager.predictions
    storage_file,       \* what StorageManager.storage_file holds on disk
    prediction_made,    \* st.session_state.prediction_made
    prediction_result,  \* st.session_state.prediction_result
    callers,            \* each concurrent caller of log_prediction: where it is in the call and its locals
    mutex               \* the mutual exclusion the callers practise around log_prediction, if any

vars == <<prediction_history, accepted, call, ret,
          sensor_values, alerts, predictions, storage_file,
          prediction_made, prediction_result, callers, mutex>>

monitorVars   == <<prediction_history, accepted>>
validatorVars == <<sensor_values, alerts>>
storageVars   == <<predictions, storage_file>>
sessionVars   == <<prediction_made, prediction_result>>
callerVars    == <<callers, mutex>>

\* SensorValidator.__init__, with no snapshot entered yet
ValidatorConstructed ==
    /\ sensor_values = <<>>
    /\ alerts = <<>>

\* the session state before any diagnostic has run
NoResult == [none |-> TRUE]
SessionStarted ==
    /\ prediction_made = FALSE
    /\ prediction_result = NoResult

\* a single caller: nobody is inside log_prediction concurrently
NoCallers ==
    /\ callers = <<>>
    /\ mutex = [exclusive |-> FALSE, holder |-> "none"]

\* StorageManager.__init__ where no history file exists
NoFile == [exists |-> FALSE]
StorageConstructed ==
    /\ predictions = <<>>
    /\ storage_file = NoFile

----------------------------------------------------------------------------
(* Python values *)

PyInt(n)   == <<"int", n>>
PyFloat(n) == <<"float", n>>
PyStr(n)   == <<"str", n>>          \* the decimal text of n
PyList(s)  == <<"list">> \o s       \* a list or an ndarray
PyTuple(s) == <<"tuple">> \o s
PyNone     == <<"None">>
PyText     == <<"text">>            \* a string that is not a number

TypeOf(x) == x[1]
Items(x)  == Tail(x)

Returned(x) == [raised |-> "", value |-> x]
Raised(e)   == [raised |-> e]

\* float(x): numbers and numeric strings convert, anything else raises
ToFloat(x) ==
    IF TypeOf(x) \in {"int", "float", "str"} THEN Returned(x[2])
    ELSE IF TypeOf(x) = "text" THEN Raised("ValueError")
    ELSE Raised("TypeError")

\* int(x): the numbers passed as a class label are whole, so int() keeps
\* their value; anything that is not a number raises as float() does
ToInt(x) ==
    IF TypeOf(x) \in {"int", "float", "str"} THEN Returned(x[2])
    ELSE IF TypeOf(x) = "text" THEN Raised("ValueError")
    ELSE Raised("TypeError")

\* x[0]
Subscript0(x) ==
    IF TypeOf(x) \in {"list", "tuple"}
    THEN IF Items(x) = <<>> THEN Raised("IndexError") ELSE Returned(x[2])
    ELSE Raised("TypeError")

----------------------------------------------------------------------------
(* OperationalMonitor *)

MAX_HISTORY == 1000
REQUIRED_FIELDS == {"prediction", "probability", "sensor_values"}
DEFAULT_QUALITY == 100

\* datetime.now(): a logical clock that has advanced by one at every record
\* appended, so no two generated timestamps coincide
Now == Len(accepted) + 1

\* None passed where the dict is expected, and the test that tells them apart
NoDict    == [none |-> TRUE]
IsDict(x) == "none" \notin DOMAIN x

\* the slice taken from the wrong end: [:1000] keeps the oldest records
TruncateKeepOldest(h) ==
    IF Len(h) > MAX_HISTORY THEN SubSeq(h, 1, MAX_HISTORY) ELSE h

\* self.prediction_history[-1000:] after the append
Truncate(h) ==
    IF Len(h) > MAX_HISTORY
    THEN SubSeq(h, Len(h) - MAX_HISTORY + 1, Len(h))
    ELSE h

\* cleaned_data with prob[-1] taken from a per-class vector instead of prob[0]
CleanedDataLastClass(prediction_data) ==
    IF ~IsDict(prediction_data) THEN Raised("TypeError")
    ELSE IF ~(REQUIRED_FIELDS \subseteq DOMAIN prediction_data)
    THEN Raised("missing")
    ELSE
      LET p0   == prediction_data.probability
          prob == IF TypeOf(p0) = "list"
                  THEN IF Items(p0) = <<>> THEN Raised("IndexError")
                       ELSE Returned(p0[Len(p0)])
                  ELSE ToFloat(p0)
          ts   == IF "timestamp" \in DOMAIN prediction_data
                  THEN prediction_data.timestamp ELSE Now
          pred == ToInt(prediction_data.prediction)
          dq   == IF "data_quality_score" \in DOMAIN prediction_data
                  THEN ToFloat(prediction_data.data_quality_score)
                  ELSE Returned(DEFAULT_QUALITY)
      IN  IF prob.raised # "" THEN prob
          ELSE IF pred.raised # "" THEN pred
          ELSE IF dq.raised # "" THEN dq
          ELSE Returned([timestamp          |-> ts,
                         prediction         |-> pred.value,
                         probability        |-> PyFloat(prob.value),
                         sensor_values      |-> prediction_data.sensor_values,
                         data_quality_score |-> dq.value])

\* the body of the try block up to cleaned_data: the record to append, or
\* the exception that sends control to the except clause
CleanedData(prediction_data) ==
    IF ~IsDict(prediction_data) THEN Raised("TypeError")
    ELSE IF ~(REQUIRED_FIELDS \subseteq DOMAIN prediction_data)
    THEN Raised("missing")
    ELSE
      LET p0   == prediction_data.probability
          prob == IF TypeOf(p0) = "list" THEN Subscript0(p0) ELSE ToFloat(p0)
          ts   == IF "timestamp" \in DOMAIN prediction_data
                  THEN prediction_data.timestamp ELSE Now
          pred == ToInt(prediction_data.prediction)
          dq   == IF "data_quality_score" \in DOMAIN prediction_data
                  THEN ToFloat(prediction_data.data_quality_score)
                  ELSE Returned(DEFAULT_QUALITY)
      IN  IF prob.raised # "" THEN prob
          ELSE IF pred.raised # "" THEN pred
          ELSE IF dq.raised # "" THEN dq
          ELSE Returned([timestamp          |-> ts,
                         prediction         |-> pred.value,
                         probability        |-> PyFloat(prob.value),
                         sensor_values      |-> prediction_data.sensor_values,
                         data_quality_score |-> dq.value])

WINDOW == 50             \* the recent window, and the least history analysed
TWO_WINDOWS == 100       \* the least history that has an older window
RATE_WARNING_TENTHS == 3 \* rate_change > 0.3
RATE_CRITICAL_TENTHS == 5 \* rate_change > 0.5
LOW_CONFIDENCE == 70     \* avg_confidence < 0.7, in hundredths
LOW_QUALITY == 80        \* avg_dq_score < 80

RECURSIVE SumSeq(_)
SumSeq(s) == IF s = <<>> THEN 0 ELSE Head(s) + SumSeq(Tail(s))

\* sum(1 for p in w if p['prediction'] == 1)
Failures(w) == Cardinality({i \in DOMAIN w : w[i].prediction = 1})

\* h[-n:]
LastN(h, n) == IF Len(h) <= n THEN h ELSE SubSeq(h, Len(h) - n + 1, Len(h))

\* np.mean over a non-empty list of numbers, kept as an exact fraction
Mean(s) == [num |-> SumSeq(s), den |-> Len(s)]
MeanBelow(m, k) == m.num < k * m.den

\* The counts c (of 50) for which abs((c + 15)/50 - c/50) is rounded above
\* the double nearest 0.3; every other difference of two rates over 50
\* records compares with 0.3 and with 0.5 as the exact fractions do.
ROUNDED_ABOVE_03 == {2, 5, 8, 11, 12, 13, 18, 19, 24, 25, 29, 30, 31, 35}

\* abs(recent_failure_rate - older_failure_rate) > tenths/10, both windows
\* holding 50 records, as double arithmetic decides it
RateChangeExceeds(r, o, tenths) ==
    LET d  == IF r >= o THEN r - o ELSE o - r
        lo == IF r >= o THEN o ELSE r
    IN  \/ d * 10 > tenths * WINDOW
        \/ /\ tenths = RATE_WARNING_TENTHS
           /\ d * 10 = tenths * WINDOW
           /\ lo \in ROUNDED_ABOVE_03

\* the recommendations appended when the failure rate has shifted
RateRecommendations(role, r, o) ==
    IF role = "plant_manager"
    THEN <<"rate:plant_manager:review",
           IF r > o THEN "rate:plant_manager:increasing"
                    ELSE "rate:plant_manager:decreasing">>
    ELSE IF role = "maintenance_engineer"
    THEN <<"rate:maintenance_engineer:compare",
           "rate:maintenance_engineer:document">>
    ELSE <<"rate:ml_engineer:drift", "rate:ml_engineer:retrain",
           "rate:ml_engineer:investigate">>

\* the single recommendation of the confidence and of the quality check
RoleRecommendation(check, role) ==
    IF role = "plant_manager" THEN <<check \o ":plant_manager">>
    ELSE IF role = "maintenance_engineer" THEN <<check \o ":maintenance_engineer">>
    ELSE <<check \o ":ml_engineer">>

INSUFFICIENT ==
    "Insufficient data for drift detection (need at least 50 predictions)"

\* [p['probability'][0] for p in recent]: the values, or the first exception
RecentConfidences(recent) ==
    LET got == [i \in DOMAIN recent |-> Subscript0(recent[i].probability)]
        bad == {i \in DOMAIN recent : got[i].raised # ""}
    IN  IF bad # {}
        THEN got[CHOOSE i \in bad : \A j \in bad : i <= j]
        ELSE Returned([i \in DOMAIN recent |-> got[i].value])

\* [p.get('data_quality_score', 100) for p in recent]
RecentQuality(recent) ==
    [i \in DOMAIN recent |->
        IF "data_quality_score" \in DOMAIN recent[i]
        THEN recent[i].data_quality_score ELSE DEFAULT_QUALITY]

\* lines 82-105: the rate comparison, skipped when there is no older window
RateCheck(st, role, recent, older) ==
    LET r == Failures(recent)
        o == Failures(older)
    IN  IF older # <<>> /\ RateChangeExceeds(r, o, RATE_WARNING_TENTHS)
        THEN [st EXCEPT
                !.drift_detected = TRUE,
                !.severity = IF RateChangeExceeds(r, o, RATE_CRITICAL_TENTHS)
                             THEN "critical" ELSE "warning",
                !.messages = @ \o <<"rate_shift">>,
                !.recommendations = @ \o RateRecommendations(role, r, o)]
        ELSE st

\* the confidence check also raising the drift flag
ConfidenceCheckSetsDrift(st, role, avg_confidence) ==
    IF MeanBelow(avg_confidence, LOW_CONFIDENCE)
    THEN [st EXCEPT
            !.drift_detected = TRUE,
            !.messages = @ \o <<"low_confidence">>,
            !.recommendations = @ \o RoleRecommendation("confidence", role)]
    ELSE st

\* the confidence check chained to the rate check with elif
ConfidenceCheckUnlessShift(st, role, avg_confidence) ==
    IF ~st.drift_detected /\ MeanBelow(avg_confidence, LOW_CONFIDENCE)
    THEN [st EXCEPT
            !.messages = @ \o <<"low_confidence">>,
            !.recommendations = @ \o RoleRecommendation("confidence", role)]
    ELSE st

\* lines 111-119: the confidence check
ConfidenceCheck(st, role, avg_confidence) ==
    IF MeanBelow(avg_confidence, LOW_CONFIDENCE)
    THEN [st EXCEPT
            !.messages = @ \o <<"low_confidence">>,
            !.recommendations = @ \o RoleRecommendation("confidence", role)]
    ELSE st

\* lines 125-134: the data-quality check
QualityCheck(st, role, avg_dq_score) ==
    IF MeanBelow(avg_dq_score, LOW_QUALITY)
    THEN [st EXCEPT
            !.drift_detected = TRUE,
            !.messages = @ \o <<"quality_degradation">>,
            !.recommendations = @ \o RoleRecommendation("quality", role)]
    ELSE st

\* line 64, with the off-by-one slip that would analyse 49 records
InsufficientBelow49(h) == Len(h) < WINDOW - 1

\* line 64: too little history to analyse
Insufficient(h) == Len(h) < WINDOW

\* detect_concept_drift(role) on history h at clock reading now
DetectConceptDrift(h, role, now) ==
    IF Insufficient(h)
    THEN Returned([drift_detected  |-> FALSE,
                   message         |-> INSUFFICIENT,
                   recommendations |-> <<>>])
    ELSE
      LET recent == LastN(h, WINDOW)
          older  == IF Len(h) >= TWO_WINDOWS
                    THEN SubSeq(h, Len(h) - TWO_WINDOWS + 1, Len(h) - WINDOW)
                    ELSE <<>>
          st0    == [drift_detected |-> FALSE, severity |-> "normal",
                     messages |-> <<>>, recommendations |-> <<>>]
          st1    == RateCheck(st0, role, recent, older)
          conf   == RecentConfidences(recent)
          avgc   == Mean(conf.value)
          st2    == ConfidenceCheck(st1, role, avgc)
          avgq   == Mean(RecentQuality(recent))
          st3    == QualityCheck(st2, role, avgq)
      IN  IF conf.raised # "" THEN conf
          ELSE Returned(
            [drift_detected      |-> st3.drift_detected,
             severity            |-> st3.severity,
             recent_failure_rate |-> [num |-> Failures(recent), den |-> Len(recent)],
             avg_confidence      |-> avgc,
             avg_data_quality    |-> avgq,
             messages            |-> st3.messages,
             recommendations     |-> st3.recommendations,
             timestamp           |-> now])

ROLES == {"plant_manager", "maintenance_engineer", "ml_engineer"}
HEALTH_WINDOW == 100
POOR_FAILURE_TENTHS == 3  \* failure_rate > 0.3
FAIR_FAILURE_TENTHS == 1  \* failure_rate > 0.1
POOR_QUALITY == 70        \* avg_data_quality < 70
FAIR_QUALITY == 85        \* avg_data_quality < 85

\* failure_rate > tenths/10 for a rate of failures/n
RateAbove(failures, n, tenths) == failures * 10 > tenths * n

\* the two tiers tested in the wrong order: fair before poor
HealthStatusFairFirst(failures, n, avg_data_quality) ==
    IF RateAbove(failures, n, FAIR_FAILURE_TENTHS)
       \/ MeanBelow(avg_data_quality, FAIR_QUALITY)
    THEN "fair"
    ELSE IF RateAbove(failures, n, POOR_FAILURE_TENTHS)
            \/ MeanBelow(avg_data_quality, POOR_QUALITY)
    THEN "poor"
    ELSE "good"

\* lines 173-178
HealthStatus(failures, n, avg_data_quality) ==
    IF RateAbove(failures, n, POOR_FAILURE_TENTHS)
       \/ MeanBelow(avg_data_quality, POOR_QUALITY)
    THEN "poor"
    ELSE IF RateAbove(failures, n, FAIR_FAILURE_TENTHS)
            \/ MeanBelow(avg_data_quality, FAIR_QUALITY)
    THEN "fair"
    ELSE "good"

\* np.mean([p['probability'] for p in recent_predictions]): the numbers
\* averaged when every entry is a scalar, or every entry a vector of one
\* length (the mean then runs over all elements); otherwise numpy raises
PlainConfidences(w) ==
    IF \A i \in DOMAIN w : TypeOf(w[i].probability) \in {"int", "float"}
    THEN Returned([i \in DOMAIN w |-> w[i].probability[2]])
    ELSE IF \A i \in DOMAIN w :
                /\ TypeOf(w[i].probability) \in {"list", "tuple"}
                /\ Len(w[i].probability) = Len(w[1].probability)
                /\ Len(w[i].probability) > 1
    THEN Returned([i \in DOMAIN w |-> SumSeq(Items(w[i].probability))
                                       \div Len(Items(w[i].probability))])
    ELSE Raised("ValueError")

\* lines 195-200
HealthAdvice(health_status) ==
    IF health_status = "poor" THEN "URGENT"
    ELSE IF health_status = "fair" THEN "CAUTION"
    ELSE "normal parameters"

\* get_system_health_report(role) on history h at clock reading now
GetSystemHealthReport(h, role, now) ==
    IF h = <<>>
    THEN [status |-> "unknown", summary |-> <<"No prediction history available">>,
          metrics |-> <<>>, timestamp |-> now]
    ELSE
      LET recent_predictions == LastN(h, HEALTH_WINDOW)
          n        == Len(recent_predictions)
          failures == Failures(recent_predictions)
          conf     == PlainConfidences(recent_predictions)
          avg_data_quality == Mean(RecentQuality(recent_predictions))
          health_status    == HealthStatus(failures, n, avg_data_quality)
      IN  IF conf.raised # ""
          THEN [status |-> "error", summary |-> <<conf.raised>>,
                metrics |-> <<>>, timestamp |-> now]
          ELSE [status  |-> health_status,
                summary |-> <<health_status, HealthAdvice(health_status)>>,
                metrics |-> [failure_rate       |-> [num |-> failures, den |-> n],
                             avg_confidence     |-> Mean(conf.value),
                             avg_data_quality   |-> avg_data_quality,
                             total_predictions  |-> Len(h),
                             recent_predictions |-> n],
                timestamp |-> now]

----------------------------------------------------------------------------
(* The session: a caller logging predictions and asking for reports *)

GoodPayloads ==
    { [prediction |-> PyInt(0), probability |-> PyFloat(90),
       sensor_values |-> "snapshot"],
      [prediction |-> PyInt(1), probability |-> PyList(<<60, 40>>),
       sensor_values |-> "snapshot", data_quality_score |-> PyFloat(60)],
      [prediction |-> PyStr(1), probability |-> PyFloat(50),
       sensor_values |-> "snapshot", data_quality_score |-> PyInt(85),
       timestamp |-> 0] }

\* rejected at every length of the history
RETRIED == [prediction |-> PyInt(1), sensor_values |-> "snapshot"]

BadPayloads ==
    { NoDict,
      RETRIED,
      [probability |-> PyFloat(90), sensor_values |-> "snapshot"],
      [prediction |-> PyInt(1), probability |-> PyFloat(90)],
      [prediction |-> PyInt(1), probability |-> PyList(<<>>),
       sensor_values |-> "snapshot"],
      [prediction |-> PyInt(1), probability |-> PyTuple(<<60, 40>>),
       sensor_values |-> "snapshot"],
      [prediction |-> PyInt(1), probability |-> PyNone,
       sensor_values |-> "snapshot"],
      [prediction |-> PyNone, probability |-> PyFloat(90),
       sensor_values |-> "snapshot"],
      [prediction |-> PyText, probability |-> PyFloat(90),
       sensor_values |-> "snapshot"],
      [prediction |-> PyInt(0), probability |-> PyFloat(90),
       sensor_values |-> "snapshot", data_quality_score |-> PyText] }

MaxLogged == 1002   \* records appended in one run
VaryLen == 1        \* while fewer records than this are logged the caller
                    \* passes any payload and any role; from then on it
                    \* repeats its last payload and the default role

Varied == Len(accepted) < VaryLen

\* r carries what the caller logged last
Repeats(r) ==
    LET q == accepted[Len(accepted)]
    IN  /\ r.prediction = q.prediction
        /\ r.probability = q.probability
        /\ r.data_quality_score = q.data_quality_score
        /\ (r.timestamp = 0) = (q.timestamp = 0)

LogInputs ==
    IF Varied THEN GoodPayloads \cup BadPayloads ELSE GoodPayloads \cup {RETRIED}

AskingRoles ==
    IF Varied THEN ROLES \cup {"auditor"} ELSE {"plant_manager"}

log_prediction(prediction_data) ==
    LET c == CleanedData(prediction_data) IN
    /\ UNCHANGED callerVars
    /\ call' = [op |-> "log_prediction", prediction_data |-> prediction_data]
    /\ IF c.raised = ""
       THEN /\ Len(accepted) < MaxLogged
            /\ IF Varied THEN TRUE ELSE Repeats(c.value)
            /\ prediction_history' = Truncate(Append(prediction_history, c.value))
            /\ accepted' = Append(accepted, c.value)
            /\ ret' = Returned(TRUE)
       ELSE /\ UNCHANGED <<prediction_history, accepted>>
            /\ ret' = Returned(FALSE)
    /\ UNCHANGED <<validatorVars, storageVars, sessionVars>>

detect_concept_drift(role) ==
    /\ UNCHANGED callerVars
    /\ call' = [op |-> "detect_concept_drift", role |-> role]
    /\ ret' = DetectConceptDrift(prediction_history, role, Now)
    /\ UNCHANGED <<prediction_history, accepted>>
    /\ UNCHANGED <<validatorVars, storageVars, sessionVars>>

get_system_health_report(role) ==
    /\ UNCHANGED callerVars
    /\ call' = [op |-> "get_system_health_report", role |-> role]
    /\ ret' = Returned(GetSystemHealthReport(prediction_history, role, Now))
    /\ UNCHANGED <<prediction_history, accepted>>
    /\ UNCHANGED <<validatorVars, storageVars, sessionVars>>

NoCall == [op |-> "none"]

Init ==
    /\ prediction_history = <<>>
    /\ accepted = <<>>
    /\ call = NoCall
    /\ ret = Returned(FALSE)
    /\ ValidatorConstructed
    /\ StorageConstructed
    /\ SessionStarted
    /\ NoCallers

Next ==
    \/ \E d \in LogInputs : log_prediction(d)
    \/ \E role \in AskingRoles : detect_concept_drift(role)
    \/ \E role \in AskingRoles : get_system_health_report(role)

Spec == Init /\ [][Next]_vars

----------------------------------------------------------------------------
(* Claims about the session *)

Min(a, b) == IF a <= b THEN a ELSE b

\* C1: after n successful log_prediction calls the history holds exactly
\* min(n, 1000) entries, and they are the most recent min(n, 1000) logged
\* records in call order.
C1_FifoHistory ==
    LET n == Len(accepted)
        k == Min(n, MAX_HISTORY)
    IN  /\ Len(prediction_history) = k
        /\ \A i \in 1..k : prediction_history[i] = accepted[n - k + i]

\* after 1001 calls the history holds calls #2..#1001
C1_Witness ==
    /\ Len(accepted) = MAX_HISTORY + 1
    /\ call.op = "log_prediction" /\ ret = Returned(TRUE)
    /\ prediction_history[1] = accepted[2]
    /\ prediction_history[MAX_HISTORY] = accepted[MAX_HISTORY + 1]
    /\ accepted[1].timestamp # accepted[2].timestamp

\* what log_prediction is to accept: a dict holding the three required
\* fields, each field that is converted being convertible
Coercible(x) == TypeOf(x) \in {"int", "float", "str"}

Loggable(d) ==
    /\ IsDict(d)
    /\ {"prediction", "probability", "sensor_values"} \subseteq DOMAIN d
    /\ \/ Coercible(d.probability)
       \/ TypeOf(d.probability) = "list" /\ Len(d.probability) > 1
    /\ Coercible(d.prediction)
    /\ "data_quality_score" \in DOMAIN d => Coercible(d.data_quality_score)

\* the mean of field f over the records of w is below k
FieldMeanBelow(w, f, k) ==
    SumSeq([i \in DOMAIN w |-> IF f = "probability" THEN w[i].probability[2]
                                ELSE w[i].data_quality_score]) < k * Len(w)

\* C2: on a history of exactly 50 records added through log_prediction,
\* detect_concept_drift returns a report in which the rate comparison is
\* skipped and the low-confidence (< 0.70) and data-quality (< 80) checks
\* are evaluated over those 50 records.
C2_ReportAtFifty ==
    (/\ call.op = "detect_concept_drift"
     /\ Len(accepted) = 50 /\ Len(prediction_history) = 50)
    => /\ ret.raised = ""
       /\ \A i \in DOMAIN ret.value.messages :
              ret.value.messages[i] # "rate_shift"
       /\ (\E i \in DOMAIN ret.value.messages :
              ret.value.messages[i] = "low_confidence")
              <=> FieldMeanBelow(prediction_history, "probability", 70)
       /\ (\E i \in DOMAIN ret.value.messages :
              ret.value.messages[i] = "quality_degradation")
              <=> FieldMeanBelow(prediction_history, "data_quality_score", 80)

\* C3: after any sequence of log_prediction calls every public entry point
\* returns a structured result and never propagates an exception.
C3_NeverPropagates ==
    call.op \in {"log_prediction", "detect_concept_drift",
                 "get_system_health_report"}
    => ret.raised = ""

\* C4: log_prediction returns False without raising and leaves the history
\* unchanged whenever the record lacks a required field or a field cannot
\* be coerced; it returns True only when exactly one normalized record,
\* with a scalar probability (index 0 of a per-class vector), was appended.
C4_LogOutcome ==
    [][ call'.op = "log_prediction" =>
          LET d == call'.prediction_data IN
          /\ ret'.raised = ""
          /\ ~Loggable(d) =>
                /\ ret'.value = FALSE
                /\ prediction_history' = prediction_history
                /\ accepted' = accepted
          /\ ret'.value = TRUE =>
                /\ Loggable(d)
                /\ Len(accepted') = Len(accepted) + 1
                /\ LET new == prediction_history'[Len(prediction_history')]
                       p   == d.probability
                   IN  /\ new = accepted'[Len(accepted')]
                       \* p[2] is the number itself or element 0 of the vector
                       /\ new.probability = PyFloat(p[2])
                       /\ new.prediction = d.prediction[2]
                       /\ new.sensor_values = d.sensor_values
                       /\ new.data_quality_score =
                             IF "data_quality_score" \in DOMAIN d
                             THEN d.data_quality_score[2] ELSE 100
                /\ \A i \in 1..(Len(prediction_history') - 1) :
                      prediction_history'[i] =
                         prediction_history[i + Len(prediction_history) + 1
                                              - Len(prediction_history')]
      ]_vars

\* a record without 'probability' was rejected at a full history, and a
\* per-class vector had been logged as its first element
C4_Witness ==
    /\ call.op = "log_prediction" /\ call.prediction_data = RETRIED
    /\ ret = Returned(FALSE)
    /\ Len(prediction_history) = MAX_HISTORY
    /\ prediction_history[MAX_HISTORY].probability = PyFloat(60)

\* C5: on every history of fewer than 50 records detect_concept_drift
\* returns drift_detected = False with the insufficient-data message and no
\* recommendations, and does not modify the history.
C5_InsufficientData ==
    [][ (call'.op = "detect_concept_drift" /\ Len(prediction_history) < 50) =>
          /\ ret'.raised = ""
          /\ ret'.value.drift_detected = FALSE
          /\ ret'.value.message = INSUFFICIENT
          /\ ret'.value.recommendations = <<>>
          /\ prediction_history' = prediction_history
      ]_vars

\* the report on exactly 49 records
C5_Witness ==
    /\ call.op = "detect_concept_drift"
    /\ Len(prediction_history) = 49
    /\ ret.raised = "" /\ ret.value.drift_detected = FALSE
    /\ ret.value.message = INSUFFICIENT

----------------------------------------------------------------------------
(* detect_concept_drift as a function of the history.  prediction_history  *)
(* is a public attribute; the histories below are placed in it directly    *)
(* and hold the per-class probability vector the predictor returns, the    *)
(* only shape line 108 can index.                                          *)

MaxLead == 1   \* records older than both windows

\* a record holding the vector [p0, 1 - p0], or the scalar p0 when plain
DirectRecord(pred, p0, dq, plain) ==
    LET base == [timestamp |-> 0, prediction |-> pred,
                 probability |-> IF plain THEN PyFloat(p0)
                                 ELSE PyList(<<p0, 100 - p0>>),
                 sensor_values |-> "snapshot"]
    IN  IF dq = DEFAULT_QUALITY THEN base
        ELSE [f \in DOMAIN base \cup {"data_quality_score"} |->
                 IF f = "data_quality_score" THEN dq ELSE base[f]]

\* 50 records: the first nf are failures, the last nlc have confidence 0.5
\* (the others 1.0), the first nlq have quality 60 (the others leave the
\* score out); with plain set the first record holds a scalar probability
DriftWindow(nf, nlc, nlq, plain) ==
    [i \in 1..WINDOW |->
        DirectRecord(IF i <= nf THEN 1 ELSE 0,
                     IF i > WINDOW - nlc THEN 50 ELSE 100,
                     IF i <= nlq THEN 60 ELSE DEFAULT_QUALITY,
                     plain /\ i = 1)]

\* records that would trip every check if a window reached them
Lead(n) == [i \in 1..n |-> DirectRecord(1, 0, 0, FALSE)]

DriftHistory(lead, of, rf, nlc, nlq, shape) ==
    LET recent == DriftWindow(rf, nlc, nlq, shape = "scalar in recent")
        older  == DriftWindow(of, 0, 0, shape = "scalar in older")
    IN  CASE lead = "49"    -> SubSeq(recent, 2, WINDOW)
          [] lead = "50"    -> recent
          [] lead = "99"    -> Lead(WINDOW - 1) \o recent
          [] lead = "100"   -> older \o recent
          [] lead = "more"  -> Lead(MaxLead) \o older \o recent

InitDrift ==
    /\ \E lead \in {"49", "50", "99", "100", "more"},
          of \in {0, 2, 25}, rf \in {0, 15, 16, 17, 25, 26, 40},
          nlc \in {0, 30, 31}, nlq \in {0, 25, 26},
          shape \in {"vectors", "scalar in recent", "scalar in older"} :
          prediction_history = DriftHistory(lead, of, rf, nlc, nlq, shape)
    /\ accepted = <<>>
    /\ call = NoCall
    /\ ret = Returned(FALSE)
    /\ ValidatorConstructed
    /\ StorageConstructed
    /\ SessionStarted
    /\ NoCallers

NextDrift ==
    \E role \in ROLES \cup {"auditor"} : detect_concept_drift(role)

SpecDrift == InitDrift /\ [][NextDrift]_vars

\* the windows and triggers as the specification words them
RecentOf(h) == [i \in 1..50 |-> h[Len(h) - 50 + i]]
OlderOf(h)  == [i \in 1..50 |-> h[Len(h) - 100 + i]]
Ones(w)     == Cardinality({i \in DOMAIN w : w[i].prediction = 1})
QualitySum(w) ==
    SumSeq([i \in DOMAIN w |-> IF "data_quality_score" \in DOMAIN w[i]
                               THEN w[i].data_quality_score ELSE 100])
ConfidenceSum(w) == SumSeq([i \in DOMAIN w |-> w[i].probability[2]])

RateShift(h, tenths) ==
    /\ Len(h) >= 100
    /\ RateChangeExceeds(Ones(RecentOf(h)), Ones(OlderOf(h)), tenths)
QualityLow(h)    == QualitySum(RecentOf(h)) < 80 * 50
ConfidenceLow(h) == ConfidenceSum(RecentOf(h)) < 70 * 50

ConfidenceTexts ==
    {"confidence:plant_manager", "confidence:maintenance_engineer",
     "confidence:ml_engineer"}
QualityTexts ==
    {"quality:plant_manager", "quality:maintenance_engineer",
     "quality:ml_engineer"}
RateTexts ==
    {"rate:plant_manager:review", "rate:plant_manager:increasing",
     "rate:plant_manager:decreasing", "rate:maintenance_engineer:compare",
     "rate:maintenance_engineer:document", "rate:ml_engineer:drift",
     "rate:ml_engineer:retrain", "rate:ml_engineer:investigate"}

Holds(seq, S) == \E i \in DOMAIN seq : seq[i] \in S
Before(seq, S, T) ==
    \A i, j \in DOMAIN seq : (seq[i] \in S /\ seq[j] \in T) => i < j

\* C7: in a report the three triggers are evaluated independently:
\* messages holds exactly one entry per fired trigger, in the order rate
\* shift, confidence, quality, and no trigger suppresses the message or
\* the recommendations of another.
C7_IndependentTriggers ==
    (/\ call.op = "detect_concept_drift"
     /\ Len(prediction_history) >= 50
     /\ ret.raised = "")
    => LET h == prediction_history
           rep == ret.value
       IN  /\ rep.messages =
                    (IF RateShift(h, 3) THEN <<"rate_shift">> ELSE <<>>)
                 \o (IF ConfidenceLow(h) THEN <<"low_confidence">> ELSE <<>>)
                 \o (IF QualityLow(h) THEN <<"quality_degradation">> ELSE <<>>)
           /\ Holds(rep.recommendations, RateTexts) <=> RateShift(h, 3)
           /\ Holds(rep.recommendations, ConfidenceTexts) <=> ConfidenceLow(h)
           /\ Holds(rep.recommendations, QualityTexts) <=> QualityLow(h)
           /\ Before(rep.recommendations, RateTexts, ConfidenceTexts)
           /\ Before(rep.recommendations, ConfidenceTexts, QualityTexts)

\* all three triggers fired in one report
C7_Witness ==
    /\ call.op = "detect_concept_drift"
    /\ ret.raised = ""
    /\ Len(prediction_history) >= 100
    /\ ret.value.messages =
          <<"rate_shift", "low_confidence", "quality_degradation">>
    /\ Len(ret.value.recommendations) = 4

----------------------------------------------------------------------------
(* get_system_health_report as a function of the history: histories of     *)
(* records in the form log_prediction stores them                          *)

LoggedRecord(pred, prob, dq) ==
    [timestamp |-> 0, prediction |-> pred, probability |-> PyFloat(prob),
     sensor_values |-> "snapshot", data_quality_score |-> dq]

\* n records: the first k are failures, the last m have quality 50 (the
\* others 100); before them, lead records that are failures of quality 0
HealthHistory(lead, n, k, m) ==
    [i \in 1..lead |-> LoggedRecord(1, 50, 0)]
    \o [i \in 1..n |-> LoggedRecord(IF i <= k THEN 1 ELSE 0, 90,
                                    IF i > n - m THEN 50 ELSE 100)]

InitHealth ==
    /\ \E n \in {0, 1, 10, HEALTH_WINDOW} :
       \E k \in {0, 1, 2, 3, 4, 10, 11, 30, 31} \cap (0..n),
          m \in {0, 1, 3, 4, 6, 7, 30, 31, 60, 61} \cap (0..n),
          lead \in 0..(IF n = HEALTH_WINDOW THEN MaxLead ELSE 0) :
          prediction_history = HealthHistory(lead, n, k, m)
    /\ accepted = <<>>
    /\ call = NoCall
    /\ ret = Returned(FALSE)
    /\ ValidatorConstructed
    /\ StorageConstructed
    /\ SessionStarted
    /\ NoCallers

NextHealth ==
    \E role \in ROLES \cup {"auditor"} : get_system_health_report(role)

SpecHealth == InitHealth /\ [][NextHealth]_vars

\* C8: the health report rests on the most recent min(100, n) records
\* only, and for every non-empty history its status is poor iff
\* failure_rate > 0.30 or avg_quality < 70, otherwise fair iff
\* failure_rate > 0.10 or avg_quality < 85, otherwise good.
C8_HealthStatus ==
    (call.op = "get_system_health_report" /\ prediction_history # <<>>)
    => LET h    == prediction_history
           n    == Min(100, Len(h))
           w    == [i \in 1..n |-> h[Len(h) - n + i]]
           poor == Ones(w) * 10 > 3 * n \/ QualitySum(w) < 70 * n
           fair == Ones(w) * 10 > 1 * n \/ QualitySum(w) < 85 * n
           rep  == ret.value
       IN  /\ ret.raised = ""
           /\ rep.status = "poor" <=> poor
           /\ rep.status = "fair" <=> (~poor /\ fair)
           /\ rep.status = "good" <=> (~poor /\ ~fair)
           /\ rep.metrics.recent_predictions = n
           /\ rep.metrics.failure_rate = [num |-> Ones(w), den |-> n]
           /\ rep.metrics.avg_data_quality = [num |-> QualitySum(w), den |-> n]

\* poor through quality alone, the failure rate exactly 0.30, and records
\* older than the window left out
C8_Witness ==
    /\ call.op = "get_system_health_report"
    /\ Len(prediction_history) > 100
    /\ ret.value.status = "poor"
    /\ ret.value.metrics.failure_rate = [num |-> 30, den |-> 100]
    /\ ret.value.metrics.recent_predictions = 100

----------------------------------------------------------------------------
(* SensorValidator: the range table and the per-sensor check *)

\* SensorValidator.SENSOR_RANGES, in hundredths of the unit
SENSOR_RANGES ==
    [TP2 |-> [min |-> 600, max |-> 1000, critical_low |-> 200,
              critical_high |-> 950, unit |-> "bar"],
     TP3 |-> [min |-> 700, max |-> 1100, critical_low |-> 600,
              critical_high |-> 1000, unit |-> "bar"],
     H1 |-> [min |-> 10, max |-> 200, critical_low |-> 5,
             critical_high |-> 180, unit |-> "bar"],
     DV_pressure |-> [min |-> 0, max |-> 250, critical_low |-> -10,
                      critical_high |-> 200, unit |-> "bar"],
     Reservoirs |-> [min |-> 700, max |-> 1100, critical_low |-> 650,
                     critical_high |-> 1050, unit |-> "bar"],
     Motor_current |-> [min |-> 0, max |-> 900, critical_low |-> 50,
                        critical_high |-> 850, unit |-> "A"],
     Oil_temperature |-> [min |-> 4000, max |-> 6500, critical_low |-> 2500,
                          critical_high |-> 7000, unit |-> "C"]]

\* StorageManager.SENSOR_RANGES: the same bounds, written out a second time
STORAGE_SENSOR_RANGES ==
    [TP2 |-> [min |-> 600, max |-> 1000, critical_low |-> 200,
              critical_high |-> 950, unit |-> "bar"],
     TP3 |-> [min |-> 700, max |-> 1100, critical_low |-> 600,
              critical_high |-> 1000, unit |-> "bar"],
     H1 |-> [min |-> 10, max |-> 200, critical_low |-> 5,
             critical_high |-> 180, unit |-> "bar"],
     DV_pressure |-> [min |-> 0, max |-> 250, critical_low |-> -10,
                      critical_high |-> 200, unit |-> "bar"],
     Reservoirs |-> [min |-> 700, max |-> 1100, critical_low |-> 650,
                     critical_high |-> 1050, unit |-> "bar"],
     Motor_current |-> [min |-> 0, max |-> 900, critical_low |-> 50,
                        critical_high |-> 850, unit |-> "A"],
     Oil_temperature |-> [min |-> 4000, max |-> 6500, critical_low |-> 2500,
                          critical_high |-> 7000, unit |-> "C"]]

CRITICAL_SCORE == 30
WARNING_SCORE == 70
NORMAL_SCORE == 100

\* the role branch repeated at every severity: the text for the role, the
\* ml_engineer text for any other token
RoleText(finding, role) ==
    IF role = "plant_manager" THEN <<finding \o ":plant_manager">>
    ELSE IF role = "maintenance_engineer"
    THEN <<finding \o ":maintenance_engineer">>
    ELSE <<finding \o ":ml_engineer">>

\* the comparisons written with <= and >=: a bound itself is out of range
ValidateSensorReadingInclusive(sensor_name, value, role) ==
    IF sensor_name \notin DOMAIN SENSOR_RANGES
    THEN [status |-> "normal", message |-> "Sensor not in validation range",
          score |-> NORMAL_SCORE]
    ELSE
      LET ranges == SENSOR_RANGES[sensor_name] IN
      IF value <= ranges.critical_low
      THEN [status |-> "critical", message |-> "CRITICAL: dangerously low",
            score |-> CRITICAL_SCORE,
            recommendations |-> RoleText("critical_low", role)]
      ELSE IF value >= ranges.critical_high
      THEN [status |-> "critical", message |-> "CRITICAL: dangerously high",
            score |-> CRITICAL_SCORE,
            recommendations |-> RoleText("critical_high", role)]
      ELSE IF value < ranges.min
      THEN [status |-> "warning", message |-> "WARNING: below normal range",
            score |-> WARNING_SCORE,
            recommendations |-> RoleText("warning_low", role)]
      ELSE IF value > ranges.max
      THEN [status |-> "warning", message |-> "WARNING: above normal range",
            score |-> WARNING_SCORE,
            recommendations |-> RoleText("warning_high", role)]
      ELSE [status |-> "normal", message |-> "within normal range",
            score |-> NORMAL_SCORE, recommendations |-> <<>>]

\* validate_sensor_reading(sensor_name, value, role)
\* validate_sensor_reading with the two normal-range comparisons placed
\* before the two critical ones
ValidateSensorReadingWarningFirst(sensor_name, value, role) ==
    IF sensor_name \notin DOMAIN SENSOR_RANGES
    THEN [status |-> "normal", message |-> "Sensor not in validation range",
          score |-> NORMAL_SCORE]
    ELSE
      LET ranges == SENSOR_RANGES[sensor_name] IN
      IF value < ranges.min
      THEN [status |-> "warning", message |-> "WARNING: below normal range",
            score |-> WARNING_SCORE,
            recommendations |-> RoleText("warning_low", role)]
      ELSE IF value > ranges.max
      THEN [status |-> "warning", message |-> "WARNING: above normal range",
            score |-> WARNING_SCORE,
            recommendations |-> RoleText("warning_high", role)]
      ELSE IF value < ranges.critical_low
      THEN [status |-> "critical", message |-> "CRITICAL: dangerously low",
            score |-> CRITICAL_SCORE,
            recommendations |-> RoleText("critical_low", role)]
      ELSE IF value > ranges.critical_high
      THEN [status |-> "critical", message |-> "CRITICAL: dangerously high",
            score |-> CRITICAL_SCORE,
            recommendations |-> RoleText("critical_high", role)]
      ELSE [status |-> "normal", message |-> "within normal range",
            score |-> NORMAL_SCORE, recommendations |-> <<>>]

ValidateSensorReading(sensor_name, value, role) ==
    IF sensor_name \notin DOMAIN SENSOR_RANGES
    THEN [status |-> "normal", message |-> "Sensor not in validation range",
          score |-> NORMAL_SCORE]
    ELSE
      LET ranges == SENSOR_RANGES[sensor_name] IN
      IF value < ranges.critical_low
      THEN [status |-> "critical", message |-> "CRITICAL: dangerously low",
            score |-> CRITICAL_SCORE,
            recommendations |-> RoleText("critical_low", role)]
      ELSE IF value > ranges.critical_high
      THEN [status |-> "critical", message |-> "CRITICAL: dangerously high",
            score |-> CRITICAL_SCORE,
            recommendations |-> RoleText("critical_high", role)]
      ELSE IF value < ranges.min
      THEN [status |-> "warning", message |-> "WARNING: below normal range",
            score |-> WARNING_SCORE,
            recommendations |-> RoleText("warning_low", role)]
      ELSE IF value > ranges.max
      THEN [status |-> "warning", message |-> "WARNING: above normal range",
            score |-> WARNING_SCORE,
            recommendations |-> RoleText("warning_high", role)]
      ELSE [status |-> "normal", message |-> "within normal range",
            score |-> NORMAL_SCORE, recommendations |-> <<>>]

validate_sensor_reading(sensor_name, value, role) ==
    /\ UNCHANGED callerVars
    /\ call' = [op |-> "validate_sensor_reading", sensor_name |-> sensor_name,
                value |-> value, role |-> role]
    /\ ret' = Returned(ValidateSensorReading(sensor_name, value, role))
    /\ UNCHANGED <<prediction_history, accepted>>
    /\ UNCHANGED <<validatorVars, storageVars, sessionVars>>

\* the 15 sensor names: the 7 analog ones and the 8 digital ones
ANALOG_SENSORS == DOMAIN SENSOR_RANGES
DIGITAL_SENSORS ==
    {"COMP", "DV_eletric", "Towers", "MPG", "LPS", "Pressure_switch",
     "Oil_level", "Caudal_impulses"}

Step == 1   \* how far around each bound of the table the readings reach

\* the readings tried for a sensor: every bound of its entry and the values
\* up to Step hundredths on either side; 0 and 1 for a digital sensor
Readings(sensor_name) ==
    IF sensor_name \in ANALOG_SENSORS
    THEN LET e == SENSOR_RANGES[sensor_name]
         IN  UNION {(b - Step)..(b + Step) :
                       b \in {e.critical_low, e.min, e.max, e.critical_high}}
    ELSE {0, 1}

InitValidator ==
    /\ prediction_history = <<>>
    /\ accepted = <<>>
    /\ call = NoCall
    /\ ret = Returned(FALSE)
    /\ ValidatorConstructed
    /\ StorageConstructed
    /\ SessionStarted
    /\ NoCallers

NextValidator ==
    \E sensor_name \in ANALOG_SENSORS \cup DIGITAL_SENSORS :
       \E value \in Readings(sensor_name), role \in ROLES \cup {"auditor"} :
          validate_sensor_reading(sensor_name, value, role)

SpecValidator == InitValidator /\ [][NextValidator]_vars

\* the order the data model requires of an entry
Ordered(e) ==
    /\ e.critical_low < e.min
    /\ e.min <= e.max
    /\ e.max < e.critical_high

\* C9: every entry of the range table, in SensorValidator and in
\* StorageManager, satisfies
\* critical_low < normal_min <= normal_max < critical_high
\* (stated of the entry each validate_sensor_reading call consults).
C9_RangeOrder ==
    (call.op = "validate_sensor_reading"
        /\ call.sensor_name \in DOMAIN SENSOR_RANGES)
    => /\ Ordered(SENSOR_RANGES[call.sensor_name])
       /\ Ordered(STORAGE_SENSOR_RANGES[call.sensor_name])

\* C10: for every sensor of the table validate_sensor_reading compares
\* strictly: a value equal to critical_low or critical_high is never
\* critical; the status is critical with score 30 iff the value is below
\* critical_low or above critical_high, else warning with score 70 iff it
\* is below normal_min or above normal_max, else normal with score 100.
C10_StrictTiers ==
    (call.op = "validate_sensor_reading"
        /\ call.sensor_name \in DOMAIN SENSOR_RANGES)
    => LET e    == SENSOR_RANGES[call.sensor_name]
           v    == call.value
           crit == v < e.critical_low \/ v > e.critical_high
           warn == ~crit /\ (v < e.min \/ v > e.max)
           out  == ret.value
       IN  /\ ret.raised = ""
           /\ (out.status = "critical" /\ out.score = 30) <=> crit
           /\ (out.status = "warning" /\ out.score = 70) <=> warn
           /\ (out.status = "normal" /\ out.score = 100) <=> (~crit /\ ~warn)
           /\ out.status \in {"critical", "warning", "normal"}
           /\ (v = e.critical_low \/ v = e.critical_high)
                 => out.status \in {"warning", "normal"}

\* a reading exactly at critical_low, classified warning
C10_Witness ==
    /\ call.op = "validate_sensor_reading"
    /\ call.sensor_name \in DOMAIN SENSOR_RANGES
    /\ call.value = SENSOR_RANGES[call.sensor_name].critical_low
    /\ ret.value.status = "warning"
    /\ ret.value.score = 70

----------------------------------------------------------------------------
(* SensorValidator: the snapshot-level checks (data_explainability.py)      *)
(*                                                                         *)
(* A snapshot is a function from the sensor names it holds to readings in  *)
(* hundredths.  completeness and overall_score are not whole numbers of    *)
(* points in general and are held as fractions [num, den] of a point; the  *)
(* comparisons the code makes on them in doubles agree with the exact ones *)
(* for every value the four components can take.                           *)

\* CORRELATION_RULES
CORRELATION_RULES ==
    << [sensors |-> <<"TP3", "Reservoirs">>, rule |-> "should_match",
        tolerance |-> 50],
       [sensors |-> <<"Motor_current", "DV_eletric">>, rule |-> "conditional"] >>

HIGH_MOTOR_CURRENT == 600    \* 6.0 A
CRITICAL_PENALTY == 40
WARNING_PENALTY == 20
WARNING_FLOOR == 60
CORRELATION_PENALTY == 25
EXTREME_PENALTY == 20
STATUS_CRITICAL_BELOW == 60
STATUS_WARNING_BELOW == 80

Abs(x) == IF x < 0 THEN -x ELSE x
Max(a, b) == IF a >= b THEN a ELSE b

\* the order in which the entry form fills the snapshot, which is the order
\* a loop over sensor_values.items() visits it
SENSOR_ORDER ==
    <<"TP2", "TP3", "H1", "DV_pressure", "Reservoirs", "Oil_temperature",
      "Motor_current", "COMP", "DV_eletric", "Towers", "MPG", "LPS",
      "Pressure_switch", "Oil_level", "Caudal_impulses">>

\* the low comparison alone: value < critical_low
IsCriticalViolationLowOnly(sensor, value) ==
    LET ranges == SENSOR_RANGES[sensor]
    IN  value < ranges.critical_low

\* value < critical_low or value > critical_high
IsCriticalViolation(sensor, value) ==
    LET ranges == SENSOR_RANGES[sensor]
    IN  value < ranges.critical_low \/ value > ranges.critical_high

\* the elif: value < min or value > max, for a value not critical
IsRangeViolation(sensor, value) ==
    LET ranges == SENSOR_RANGES[sensor]
    IN  /\ ~IsCriticalViolation(sensor, value)
        /\ (value < ranges.min \/ value > ranges.max)

\* value > max + (max - min) * 0.5
IsExtreme(sensor, value) ==
    LET ranges == SENSOR_RANGES[sensor]
        normal_range == ranges.max - ranges.min
    IN  2 * value > 2 * ranges.max + normal_range

\* the sensors of the snapshot that the range table knows
Ranged(snapshot) == DOMAIN snapshot \cap DOMAIN SENSOR_RANGES

\* the branch taken at the first violation count that is positive, with the
\* warning count consulted first
RangeComplianceWarningsFirst(critical_violations, range_violations) ==
    IF range_violations > 0
    THEN Max(WARNING_FLOOR, 100 - range_violations * WARNING_PENALTY)
    ELSE IF critical_violations > 0
    THEN Max(0, 100 - critical_violations * CRITICAL_PENALTY)
    ELSE 100

\* the penalties taken off without the floors of max(0, ...) and max(60, ...)
RangeComplianceNoFloor(critical_violations, range_violations) ==
    IF critical_violations > 0
    THEN 100 - critical_violations * CRITICAL_PENALTY
    ELSE IF range_violations > 0
    THEN 100 - range_violations * WARNING_PENALTY
    ELSE 100

\* 1. Range Compliance
RangeCompliance(critical_violations, range_violations) ==
    IF critical_violations > 0
    THEN Max(0, 100 - critical_violations * CRITICAL_PENALTY)
    ELSE IF range_violations > 0
    THEN Max(WARNING_FLOOR, 100 - range_violations * WARNING_PENALTY)
    ELSE 100

\* the rules with >= where the code has >: readings exactly the tolerance
\* apart, and a motor current of exactly 6.0 A, count as violations
RuleViolatedInclusive(rule, snapshot) ==
    IF rule.rule = "should_match"
    THEN LET sensor1 == rule.sensors[1]
             sensor2 == rule.sensors[2]
         IN  /\ sensor1 \in DOMAIN snapshot
             /\ sensor2 \in DOMAIN snapshot
             /\ Abs(snapshot[sensor1] - snapshot[sensor2]) >= rule.tolerance
    ELSE /\ rule.rule = "conditional"
         /\ "Motor_current" \in DOMAIN snapshot
         /\ "DV_eletric" \in DOMAIN snapshot
         /\ snapshot["Motor_current"] >= HIGH_MOTOR_CURRENT
         /\ snapshot["DV_eletric"] = 0

\* whether a rule of CORRELATION_RULES is violated by the snapshot
RuleViolated(rule, snapshot) ==
    IF rule.rule = "should_match"
    THEN LET sensor1 == rule.sensors[1]
             sensor2 == rule.sensors[2]
         IN  /\ sensor1 \in DOMAIN snapshot
             /\ sensor2 \in DOMAIN snapshot
             /\ Abs(snapshot[sensor1] - snapshot[sensor2]) > rule.tolerance
    ELSE /\ rule.rule = "conditional"
         /\ "Motor_current" \in DOMAIN snapshot
         /\ "DV_eletric" \in DOMAIN snapshot
         /\ snapshot["Motor_current"] > HIGH_MOTOR_CURRENT
         /\ snapshot["DV_eletric"] = 0

\* the rules with the low oil level counted as a third one
CorrelationViolationsWithOil(snapshot) ==
    Cardinality({i \in DOMAIN CORRELATION_RULES :
                    RuleViolated(CORRELATION_RULES[i], snapshot)})
    + (IF "Oil_level" \in DOMAIN snapshot /\ snapshot["Oil_level"] = 1
       THEN 1 ELSE 0)

\* 2. Cross-Correlation: the number of rules violated
CorrelationViolations(snapshot) ==
    Cardinality({i \in DOMAIN CORRELATION_RULES :
                    RuleViolated(CORRELATION_RULES[i], snapshot)})

\* the sensors of the snapshot counted against the expected ones, so that a
\* sensor the table does not know makes up for a missing one
MissingSensorsByCount(snapshot) ==
    LET expected == DOMAIN SENSOR_RANGES
        short == Max(0, Cardinality(expected) - Cardinality(DOMAIN snapshot))
    IN  CHOOSE m \in SUBSET expected : Cardinality(m) = short

\* 3. Completeness: expected_sensors - provided_sensors
MissingSensors(snapshot) == DOMAIN SENSOR_RANGES \ DOMAIN snapshot

\* calculate_data_quality_score(sensor_values)
CalculateDataQualityScore(snapshot) ==
    LET critical_violations ==
            Cardinality({s \in Ranged(snapshot) :
                            IsCriticalViolation(s, snapshot[s])})
        range_violations ==
            Cardinality({s \in Ranged(snapshot) :
                            IsRangeViolation(s, snapshot[s])})
        correlation_violations == CorrelationViolations(snapshot)
        expected == Cardinality(DOMAIN SENSOR_RANGES)
        missing == MissingSensors(snapshot)
        extreme_values ==
            Cardinality({s \in Ranged(snapshot) : IsExtreme(s, snapshot[s])})
        range_compliance == RangeCompliance(critical_violations, range_violations)
        cross_correlation ==
            Max(0, 100 - correlation_violations * CORRELATION_PENALTY)
        \* max(0, 100 - (len(missing) / len(expected)) * 100)
        completeness ==
            [num |-> Max(0, 100 * expected - 100 * Cardinality(missing)),
             den |-> expected]
        signal_stability == Max(0, 100 - extreme_values * EXTREME_PENALTY)
        \* 0.4, 0.3, 0.2 and 0.1 of the four, over the denominator 10 * den
        final_score ==
            [num |-> (4 * range_compliance + 3 * cross_correlation
                        + signal_stability) * expected + 2 * completeness.num,
             den |-> 10 * expected]
    IN  [overall_score |-> final_score,
         component_scores |->
            [range_compliance |-> range_compliance,
             cross_correlation |-> cross_correlation,
             completeness |-> completeness,
             signal_stability |-> signal_stability],
         details |->
            [range_violations |-> range_violations,
             critical_violations |-> critical_violations,
             correlation_violations |-> correlation_violations,
             missing_sensors |-> missing,
             extreme_values |-> extreme_values]]

\* the alert of a rule, with the recommendation of the role (the third text
\* for any role that is neither plant_manager nor maintenance_engineer)
CorrelationAlert(status, finding, role) ==
    [status |-> status, message |-> finding,
     recommendations |-> RoleText(finding, role)]

\* the oil-level rule consulted only when no other rule has fired
CrossSensorOilLast(snapshot, role) ==
    LET others ==
           (IF RuleViolated(CORRELATION_RULES[1], snapshot)
            THEN <<CorrelationAlert("warning", "pressure_mismatch", role)>>
            ELSE <<>>)
        \o (IF RuleViolated(CORRELATION_RULES[2], snapshot)
            THEN <<CorrelationAlert("warning", "inconsistent_state", role)>>
            ELSE <<>>)
    IN  IF others # <<>> THEN others
        ELSE IF "Oil_level" \in DOMAIN snapshot /\ snapshot["Oil_level"] = 1
        THEN <<CorrelationAlert("critical", "low_oil_level", role)>>
        ELSE <<>>

\* validate_cross_sensor_correlations(sensor_values, role): the three checks
\* are written out in the method; the first two test what the two entries
\* of CORRELATION_RULES describe
ValidateCrossSensorCorrelations(snapshot, role) ==
       (IF /\ "TP3" \in DOMAIN snapshot
           /\ "Reservoirs" \in DOMAIN snapshot
           /\ Abs(snapshot["TP3"] - snapshot["Reservoirs"]) > 50
        THEN <<CorrelationAlert("warning", "pressure_mismatch", role)>>
        ELSE <<>>)
    \o (IF /\ "Motor_current" \in DOMAIN snapshot
           /\ "DV_eletric" \in DOMAIN snapshot
           /\ snapshot["Motor_current"] > HIGH_MOTOR_CURRENT
           /\ snapshot["DV_eletric"] = 0
        THEN <<CorrelationAlert("warning", "inconsistent_state", role)>>
        ELSE <<>>)
       \* sensor_values.get('Oil_level', 0) == 1
    \o (IF (IF "Oil_level" \in DOMAIN snapshot
            THEN snapshot["Oil_level"] ELSE 0) = 1
        THEN <<CorrelationAlert("critical", "low_oil_level", role)>>
        ELSE <<>>)

\* the quality_factors of the report: one per component below 100
QualityFactors(quality_score) ==
    LET c == quality_score.component_scores
        d == quality_score.details
    IN     (IF c.range_compliance < 100
            THEN <<[sensor |-> "Multiple", score |-> c.range_compliance,
                    reason |-> <<"Range violations detected",
                                 d.range_violations, d.critical_violations>>]>>
            ELSE <<>>)
        \o (IF c.cross_correlation < 100
            THEN <<[sensor |-> "Multiple", score |-> c.cross_correlation,
                    reason |-> <<"Cross-correlation issues detected",
                                 d.correlation_violations>>]>>
            ELSE <<>>)
        \o (IF c.completeness.num < 100 * c.completeness.den
            THEN <<[sensor |-> "Multiple", score |-> c.completeness,
                    reason |-> <<"Incomplete data", d.missing_sensors>>]>>
            ELSE <<>>)
        \o (IF c.signal_stability < 100
            THEN <<[sensor |-> "Multiple", score |-> c.signal_stability,
                    reason |-> <<"Signal stability concerns",
                                 d.extreme_values>>]>>
            ELSE <<>>)

\* the alerts of the report: the loop over the snapshot, one alert per
\* reading out of its critical or normal range
RECURSIVE RangeAlerts(_, _)
RangeAlerts(snapshot, i) ==
    IF i > Len(SENSOR_ORDER) THEN <<>>
    ELSE LET sensor == SENSOR_ORDER[i]
             here ==
                IF sensor \notin Ranged(snapshot) THEN <<>>
                ELSE IF IsCriticalViolation(sensor, snapshot[sensor])
                THEN <<[status |-> "critical",
                        message |-> sensor \o " out of critical range",
                        recommendations |-> <<>>]>>
                ELSE IF IsRangeViolation(sensor, snapshot[sensor])
                THEN <<[status |-> "warning",
                        message |-> sensor \o " out of normal range",
                        recommendations |-> <<>>]>>
                ELSE <<>>
         IN  here \o RangeAlerts(snapshot, i + 1)

\* alerts.sort(key=lambda x: x['status'] == 'normal'): a stable sort that
\* moves the alerts of status normal behind the others
SortAlerts(a) ==
    SelectSeq(a, LAMBDA x : x.status # "normal")
    \o SelectSeq(a, LAMBDA x : x.status = "normal")

\* self.alerts as the report leaves it: the range alerts, sorted
ReportAlerts(snapshot, role) == SortAlerts(RangeAlerts(snapshot, 1))

\* overall_status: critical below 60, warning below 80, else normal
OverallStatus(overall_score) ==
    IF overall_score.num < STATUS_CRITICAL_BELOW * overall_score.den
    THEN "critical"
    ELSE IF overall_score.num < STATUS_WARNING_BELOW * overall_score.den
    THEN "warning"
    ELSE "normal"

\* generate_data_quality_report(sensor_values, role)
GenerateDataQualityReport(snapshot, role, now) ==
    LET quality_score == CalculateDataQualityScore(snapshot)
    IN  [overall_status |-> OverallStatus(quality_score.overall_score),
         data_quality_score |-> quality_score.overall_score,
         component_scores |-> quality_score.component_scores,
         quality_factors |-> QualityFactors(quality_score),
         alerts |-> ReportAlerts(snapshot, role),
         details |-> quality_score.details,
         timestamp |-> PyStr(now)]

calculate_data_quality_score ==
    /\ UNCHANGED callerVars
    /\ call' = [op |-> "calculate_data_quality_score"]
    /\ ret' = Returned(CalculateDataQualityScore(sensor_values))
    /\ UNCHANGED <<monitorVars, validatorVars, storageVars, sessionVars>>

validate_cross_sensor_correlations(role) ==
    /\ UNCHANGED callerVars
    /\ call' = [op |-> "validate_cross_sensor_correlations", role |-> role]
    /\ ret' = Returned(ValidateCrossSensorCorrelations(sensor_values, role))
    /\ UNCHANGED <<monitorVars, validatorVars, storageVars, sessionVars>>

generate_data_quality_report(role) ==
    LET report == GenerateDataQualityReport(sensor_values, role, Now) IN
    /\ UNCHANGED callerVars
    /\ call' = [op |-> "generate_data_quality_report", role |-> role]
    /\ alerts' = report.alerts
    /\ ret' = Returned(report)
    /\ UNCHANGED <<monitorVars, sensor_values, storageVars, sessionVars>>

MaxChanged == 2   \* sensors in which a snapshot differs from its base

\* the snapshot of the specification's scenario: the 7 analog sensors, all
\* in their normal range, and no digital sensor
SCENARIO ==
    [TP2 |-> 800, TP3 |-> 900, H1 |-> 100, DV_pressure |-> 50,
     Reservoirs |-> 900, Motor_current |-> 400, Oil_temperature |-> 5500]

\* a snapshot of a unit in trouble: two readings out of their critical range
\* (one of them extreme), two out of their normal range, the valve closed
DEGRADED ==
    [TP2 |-> 100, TP3 |-> 650, H1 |-> 296, DV_pressure |-> -5,
     Reservoirs |-> 900, Motor_current |-> 601, Oil_temperature |-> 5500,
     DV_eletric |-> 0, Oil_level |-> 0]

\* the readings tried for the sensors a snapshot-level check looks at: for
\* an analog sensor a normal reading, readings out of the normal and of the
\* critical range and, for H1, an extreme one; TP3 and Reservoirs 0.50 and
\* 0.51 bar apart, Motor_current at and just above 6.0 A; the two digital
\* sensors the rules read.  Every comparison the code makes on these readings
\* in doubles has the outcome of the exact one.
SNAPSHOT_READINGS ==
    [TP2 |-> {800, 500, 100}, TP3 |-> {900, 850, 650}, H1 |-> {100, 296},
     DV_pressure |-> {50, -5}, Reservoirs |-> {900, 951},
     Motor_current |-> {400, 600, 601}, Oil_temperature |-> {5500, 7200},
     DV_eletric |-> {0, 1}, Oil_level |-> {0, 1}]

\* the snapshot with the sensor set to a reading <<v>> or removed by <<>>
Put(snapshot, sensor, reading) ==
    IF reading = <<>>
    THEN [k \in DOMAIN snapshot \ {sensor} |-> snapshot[k]]
    ELSE [k \in DOMAIN snapshot \cup {sensor} |->
             IF k = sensor THEN reading[1] ELSE snapshot[k]]

\* the snapshots that differ from the given one in at most k of the sensors
\* from the i-th on
RECURSIVE Variants(_, _, _)
Variants(snapshot, i, k) ==
    IF i > Len(SENSOR_ORDER) \/ k = 0 THEN {snapshot}
    ELSE LET sensor == SENSOR_ORDER[i]
             current == IF sensor \in DOMAIN snapshot
                        THEN <<snapshot[sensor]>> ELSE <<>>
             others ==
                IF sensor \in DOMAIN SNAPSHOT_READINGS
                THEN ({<<>>} \cup {<<v>> : v \in SNAPSHOT_READINGS[sensor]})
                        \ {current}
                ELSE {}
         IN  Variants(snapshot, i + 1, k)
             \cup UNION {Variants(Put(snapshot, sensor, r), i + 1, k - 1) :
                            r \in others}

\* the two readings at the edge of the extreme test of a sensor: the largest
\* one that is not extreme, max + (max - min) / 2, and the next hundredth
AroundExtreme(sensor) ==
    LET ranges == SENSOR_RANGES[sensor]
        edge == ranges.max + (ranges.max - ranges.min) \div 2
    IN  {edge, edge + 1}

\* the scenario's snapshot with one sensor at the edge of the extreme test
ExtremeSnapshots ==
    UNION {{Put(SCENARIO, sensor, <<v>>) : v \in AroundExtreme(sensor)} :
              sensor \in DOMAIN SENSOR_RANGES}

\* the three snapshots above, each changed in up to MaxChanged sensors, and
\* the snapshots at the edge of the extreme test
Snapshots ==
    Variants(SCENARIO, 1, MaxChanged) \cup Variants(DEGRADED, 1, MaxChanged)
    \cup Variants(<<>>, 1, MaxChanged) \cup ExtremeSnapshots

InitQuality ==
    /\ prediction_history = <<>>
    /\ accepted = <<>>
    /\ call = NoCall
    /\ ret = Returned(FALSE)
    /\ sensor_values \in Snapshots
    /\ alerts = <<>>
    /\ StorageConstructed
    /\ SessionStarted
    /\ NoCallers

NextQuality ==
    \/ calculate_data_quality_score
    \/ \E role \in ROLES \cup {"auditor"} :
          validate_cross_sensor_correlations(role)
    \/ \E role \in ROLES : generate_data_quality_report(role)
    \/ \E sensor_name \in DOMAIN sensor_values,
             role \in {"plant_manager", "auditor"} :
          validate_sensor_reading(sensor_name, sensor_values[sensor_name], role)

SpecQuality == InitQuality /\ [][NextQuality]_vars

----------------------------------------------------------------------------
(* Claims about the snapshot-level checks, under SpecQuality *)

\* what the claims say of a snapshot, written from the range table
InTable(sv) == DOMAIN sv \cap ANALOG_SENSORS
CriticalCount(sv) ==
    Cardinality({s \in InTable(sv) :
                    \/ sv[s] < SENSOR_RANGES[s].critical_low
                    \/ sv[s] > SENSOR_RANGES[s].critical_high})
WarningCount(sv) ==
    Cardinality({s \in InTable(sv) :
                    /\ sv[s] >= SENSOR_RANGES[s].critical_low
                    /\ sv[s] <= SENSOR_RANGES[s].critical_high
                    /\ (sv[s] < SENSOR_RANGES[s].min
                           \/ sv[s] > SENSOR_RANGES[s].max)})
Rule1Fires(sv) ==
    /\ {"TP3", "Reservoirs"} \subseteq DOMAIN sv
    /\ (sv["TP3"] - sv["Reservoirs"] > 50 \/ sv["Reservoirs"] - sv["TP3"] > 50)
Rule2Fires(sv) ==
    /\ {"Motor_current", "DV_eletric"} \subseteq DOMAIN sv
    /\ sv["Motor_current"] > 600
    /\ sv["DV_eletric"] = 0
OilLevelTripped(sv) == "Oil_level" \in DOMAIN sv /\ sv["Oil_level"] = 1
Count(b) == IF b THEN 1 ELSE 0
IsHundred(q) == q.num = 100 * q.den
Scored == call.op = "calculate_data_quality_score"

\* C11: a sensor outside the range table is never penalized:
\* validate_sensor_reading returns status normal and score 100 for such a
\* name with any value and role, and adding, changing or removing a key
\* that is not in the table leaves range_compliance, completeness and
\* signal_stability of calculate_data_quality_score as they were.
C11_UnknownSensorsNotPenalized ==
    /\ (call.op = "validate_sensor_reading"
           /\ call.sensor_name \notin DOMAIN SENSOR_RANGES)
       => /\ ret.raised = ""
          /\ ret.value.status = "normal"
          /\ ret.value.score = 100
    /\ Scored
       => \A d \in DIGITAL_SENSORS \cup {"Vibration"} :
             \A r \in {<<>>, <<0>>, <<1>>, <<99999>>} :
                LET mine  == ret.value.component_scores
                    other == CalculateDataQualityScore(
                                Put(sensor_values, d, r)).component_scores
                IN  /\ other.range_compliance = mine.range_compliance
                    /\ other.completeness = mine.completeness
                    /\ other.signal_stability = mine.signal_stability

\* a snapshot scored that holds a sensor outside the table and lacks some of
\* the table's sensors, and so is incomplete
C11_Witness ==
    /\ Scored
    /\ "DV_eletric" \in DOMAIN sensor_values
    /\ ~IsHundred(ret.value.component_scores.completeness)
    /\ ret.value.component_scores.range_compliance < 100

\* C12: for every snapshot calculate_data_quality_score returns an
\* overall_score in [0, 100] and four component scores in [0, 100], and
\* overall_score = 0.4 * range_compliance + 0.3 * cross_correlation
\*                 + 0.2 * completeness + 0.1 * signal_stability.
C12_ScoreBoundsAndWeights ==
    Scored
    => LET q == ret.value
           c == q.component_scores
           o == q.overall_score
       IN  /\ ret.raised = ""
           /\ 0 <= o.num /\ o.num <= 100 * o.den /\ o.den > 0
           /\ c.range_compliance \in 0..100
           /\ c.cross_correlation \in 0..100
           /\ c.signal_stability \in 0..100
           /\ 0 <= c.completeness.num
           /\ c.completeness.num <= 100 * c.completeness.den
           /\ c.completeness.den > 0
           \* 10 * overall = 4 rc + 3 cc + 2 completeness + ss
           /\ 10 * o.num * c.completeness.den
                 = o.den * ((4 * c.range_compliance + 3 * c.cross_correlation
                               + c.signal_stability) * c.completeness.den
                            + 2 * c.completeness.num)

\* a snapshot with three critical violations scored: range_compliance is 0
C12_Witness ==
    /\ Scored
    /\ CriticalCount(sensor_values) >= 3
    /\ ret.value.component_scores.range_compliance = 0
    /\ ~IsHundred(ret.value.overall_score)

\* C13: range_compliance is max(0, 100 - 40 c) when the snapshot has c >= 1
\* critical violations, whatever the warnings; else max(60, 100 - 20 w)
\* when it has w >= 1 warning-range violations; else 100.
C13_RangeComplianceBranches ==
    Scored
    => LET c  == CriticalCount(sensor_values)
           w  == WarningCount(sensor_values)
           rc == ret.value.component_scores.range_compliance
       IN  /\ c >= 1 => rc = Max(0, 100 - 40 * c)
           /\ (c = 0 /\ w >= 1) => rc = Max(60, 100 - 20 * w)
           /\ (c = 0 /\ w = 0) => rc = 100
           /\ ret.value.details.critical_violations = c
           /\ ret.value.details.range_violations = w

\* two critical violations beside a warning: 100 - 2 * 40, the warning
\* taking nothing off
C13_Witness ==
    /\ Scored
    /\ CriticalCount(sensor_values) = 2
    /\ WarningCount(sensor_values) >= 1
    /\ ret.value.component_scores.range_compliance = 20

\* C14: cross_correlation is 100 minus 25 per triggered rule among rule 1
\* (|TP3 - Reservoirs| > 0.5, both present) and rule 2 (Motor_current > 6.0
\* and DV_eletric = 0, both present); the value of Oil_level has no effect
\* on cross_correlation or on any other component score.
C14_CrossCorrelation ==
    Scored
    => /\ ret.value.component_scores.cross_correlation
             = 100 - 25 * (Count(Rule1Fires(sensor_values))
                           + Count(Rule2Fires(sensor_values)))
       /\ \A r \in {<<>>, <<0>>, <<1>>} :
             CalculateDataQualityScore(
                Put(sensor_values, "Oil_level", r)).component_scores
             = ret.value.component_scores

\* the oil level tripped and both rules triggered: cross_correlation is 50
C14_Witness ==
    /\ Scored
    /\ OilLevelTripped(sensor_values)
    /\ Rule1Fires(sensor_values)
    /\ Rule2Fires(sensor_values)
    /\ ret.value.component_scores.cross_correlation = 50

\* a snapshot with all 7 analog sensors, each within its normal and its
\* critical bounds, and neither rule triggered
Clean(sv) ==
    /\ ANALOG_SENSORS \subseteq DOMAIN sv
    /\ \A s \in ANALOG_SENSORS :
          /\ SENSOR_RANGES[s].min <= sv[s] /\ sv[s] <= SENSOR_RANGES[s].max
          /\ SENSOR_RANGES[s].critical_low <= sv[s]
          /\ sv[s] <= SENSOR_RANGES[s].critical_high
    /\ ~Rule1Fires(sv)
    /\ ~Rule2Fires(sv)

\* C15: for every snapshot with all 7 analog sensors present, every analog
\* value within its normal and critical bounds, |TP3 - Reservoirs| <= 0.5
\* and rule 2 not triggered, the four component scores are 100 and
\* overall_score is 100.
C15_CleanSnapshot ==
    (Scored /\ Clean(sensor_values))
    => LET c == ret.value.component_scores
       IN  /\ c.range_compliance = 100
           /\ c.cross_correlation = 100
           /\ IsHundred(c.completeness)
           /\ c.signal_stability = 100
           /\ IsHundred(ret.value.overall_score)

\* a clean snapshot at the edge of rule 1: TP3 and Reservoirs exactly
\* 0.5 bar apart
C15_Witness ==
    /\ Scored
    /\ Clean(sensor_values)
    /\ sensor_values["TP3"] = 850
    /\ sensor_values["Reservoirs"] = 900
    /\ IsHundred(ret.value.overall_score)

Reported == call.op = "generate_data_quality_report"

\* a snapshot that is clean but for exactly one critical violation
OneCriticalOtherwiseClean(sv) ==
    /\ ANALOG_SENSORS \subseteq DOMAIN sv
    /\ CriticalCount(sv) = 1
    /\ WarningCount(sv) = 0
    /\ ~Rule1Fires(sv)
    /\ ~Rule2Fires(sv)

\* C16: for a snapshot that is otherwise clean (all 7 analog sensors
\* present, no rule triggered) but has exactly one critical violation,
\* range_compliance is 60 and the report's overall_status is warning or
\* critical, where overall_status is critical if overall_score < 60,
\* warning if < 80, else normal.
C16_OneCriticalViolation ==
    (Reported /\ OneCriticalOtherwiseClean(sensor_values))
    => LET o == ret.value.data_quality_score
       IN  /\ ret.value.component_scores.range_compliance = 60
           /\ ret.value.overall_status \in {"warning", "critical"}
           /\ ret.value.overall_status
                 = IF o.num < 60 * o.den THEN "critical"
                   ELSE IF o.num < 80 * o.den THEN "warning"
                   ELSE "normal"

\* C17: validate_cross_sensor_correlations applies its three rules
\* independently: the list it returns holds one alert per applicable rule
\* (0 to 3 alerts), and it holds a critical alert iff Oil_level = 1,
\* whatever the other sensor values and whichever other rules fired.
C17_CrossSensorRules ==
    call.op = "validate_cross_sensor_correlations"
    => LET found == ret.value
           sv == sensor_values
           Has(finding) ==
               Cardinality({i \in DOMAIN found : found[i].message = finding})
       IN  /\ ret.raised = ""
           /\ Len(found) = Count(Rule1Fires(sv)) + Count(Rule2Fires(sv))
                              + Count(OilLevelTripped(sv))
           /\ Has("pressure_mismatch") = Count(Rule1Fires(sv))
           /\ Has("inconsistent_state") = Count(Rule2Fires(sv))
           /\ Has("low_oil_level") = Count(OilLevelTripped(sv))
           /\ (\E i \in DOMAIN found : found[i].status = "critical")
                 <=> OilLevelTripped(sv)

\* all three rules apply to one snapshot: three alerts, the last critical
C17_Witness ==
    /\ call.op = "validate_cross_sensor_correlations"
    /\ Rule1Fires(sensor_values)
    /\ Rule2Fires(sensor_values)
    /\ OilLevelTripped(sensor_values)
    /\ Len(ret.value) = 3
    /\ ret.value[3].status = "critical"

\* C18: for every snapshot with Oil_level = 1 the alert list of the report
\* of generate_data_quality_report holds at least one entry of status
\* critical, whatever the other sensor values.
C18_OilLevelAlert ==
    (Reported /\ OilLevelTripped(sensor_values))
    => /\ \E i \in DOMAIN ret.value.alerts :
             ret.value.alerts[i].status = "critical"
       /\ \E i \in DOMAIN alerts : alerts[i].status = "critical"

----------------------------------------------------------------------------
(* StorageManager (storage_manager.py) and the two save paths of app.py     *)
(*                                                                         *)
(* Time is counted in hours; a timestamp is <<"iso", t>> when it parses as *)
(* a date and time and PyText when it does not.  The date of t is          *)
(* t \div 24 and its time of day t % 24.                                   *)

STORAGE_REQUIRED_FIELDS == {"prediction", "probability", "sensor_values"}
HOURS_PER_DAY == 24
RECENT_ROWS == 10
TREND_ROWS == 50

IsoTime(t) == <<"iso", t>>
DateOf(t) == t \div HOURS_PER_DAY
TimeOf(t) == t % HOURS_PER_DAY

\* datetime.now(): the session starts on day 2 and one hour passes per
\* stored prediction
StorageNow == 2 * HOURS_PER_DAY + Len(predictions)

\* the file after a json.dump that succeeded
Written(list, now) ==
    [exists |-> TRUE, readable |-> TRUE, predictions |-> list,
     last_updated |-> IsoTime(now)]

\* the file after open(..., 'w') succeeded and json.dump failed part-way
Partial == [exists |-> TRUE, readable |-> FALSE]

\* load_history: the predictions of the file, [] when there is no file or
\* it cannot be read
LoadHistory(file) ==
    IF file.exists /\ file.readable THEN file.predictions ELSE <<>>

\* prediction_data with the timestamp set when it has none
Stamped(prediction_data, now) ==
    IF "timestamp" \in DOMAIN prediction_data THEN prediction_data
    ELSE [k \in DOMAIN prediction_data \cup {"timestamp"} |->
             IF k = "timestamp" THEN IsoTime(now) ELSE prediction_data[k]]

\* the new record put in front of the list
SavePredictionPrepend(list, file, prediction_data, now, io) ==
    IF ~IsDict(prediction_data)
    THEN [predictions |-> list, file |-> file, ret |-> FALSE]
    ELSE LET stamped == Stamped(prediction_data, now) IN
         IF ~(STORAGE_REQUIRED_FIELDS \subseteq DOMAIN stamped)
         THEN [predictions |-> list, file |-> file, ret |-> FALSE]
         ELSE LET appended == <<stamped>> \o list IN
              CASE io = "written" ->
                     [predictions |-> appended,
                      file |-> Written(appended, now), ret |-> TRUE]
                [] io = "open failed" ->
                     [predictions |-> appended, file |-> file, ret |-> FALSE]
                [] io = "dump failed" ->
                     [predictions |-> appended, file |-> Partial, ret |-> FALSE]

\* the record taken off the list again when the write fails
SavePredictionRollback(list, file, prediction_data, now, io) ==
    IF ~IsDict(prediction_data)
    THEN [predictions |-> list, file |-> file, ret |-> FALSE]
    ELSE LET stamped == Stamped(prediction_data, now) IN
         IF ~(STORAGE_REQUIRED_FIELDS \subseteq DOMAIN stamped)
         THEN [predictions |-> list, file |-> file, ret |-> FALSE]
         ELSE LET appended == Append(list, stamped) IN
              CASE io = "written" ->
                     [predictions |-> appended,
                      file |-> Written(appended, now), ret |-> TRUE]
                [] io = "open failed" ->
                     [predictions |-> list, file |-> file, ret |-> FALSE]
                [] io = "dump failed" ->
                     [predictions |-> list, file |-> Partial, ret |-> FALSE]

\* save_prediction(prediction_data): the list, the file and the value
\* returned; io is what the file system does with the write
SavePrediction(list, file, prediction_data, now, io) ==
    IF ~IsDict(prediction_data)
    THEN [predictions |-> list, file |-> file, ret |-> FALSE]
    ELSE LET stamped == Stamped(prediction_data, now) IN
         IF ~(STORAGE_REQUIRED_FIELDS \subseteq DOMAIN stamped)
         THEN [predictions |-> list, file |-> file, ret |-> FALSE]
         ELSE LET appended == Append(list, stamped) IN
              CASE io = "written" ->
                     [predictions |-> appended,
                      file |-> Written(appended, now), ret |-> TRUE]
                [] io = "open failed" ->
                     [predictions |-> appended, file |-> file, ret |-> FALSE]
                [] io = "dump failed" ->
                     [predictions |-> appended, file |-> Partial, ret |-> FALSE]

IO_OUTCOMES == {"written", "open failed", "dump failed"}

\* whether datetime.fromisoformat / pd.to_datetime accepts the timestamp
Parses(timestamp) == TypeOf(timestamp) = "iso"

\* get_recent_predictions(hours)
GetRecentPredictions(list, hours, now) ==
    IF \E i \in DOMAIN list : ~Parses(list[i].timestamp)
    THEN Raised("ValueError")
    ELSE Returned(SelectSeq(list,
                     LAMBDA p : p.timestamp[2] >= now - hours))

\* None given for a filter
NoFilter == -1

\* the end date compared with < instead of <=
FilteredBeforeEnd(list, start_date, end_date, time_analysis, start_time, end_time) ==
    LET byStart == IF start_date # NoFilter
                   THEN SelectSeq(list, LAMBDA p :
                           DateOf(p.timestamp[2]) >= start_date)
                   ELSE list
        byEnd   == IF end_date # NoFilter
                   THEN SelectSeq(byStart, LAMBDA p :
                           DateOf(p.timestamp[2]) < end_date)
                   ELSE byStart
    IN  IF time_analysis = "Within Day Analysis"
           /\ start_time # NoFilter /\ end_time # NoFilter
        THEN SelectSeq(byEnd, LAMBDA p :
                /\ TimeOf(p.timestamp[2]) >= start_time
                /\ TimeOf(p.timestamp[2]) <= end_time)
        ELSE byEnd

\* the rows of the frame that pass the date and time-of-day filters; a
\* filter that is None (here NoFilter) is not applied
Filtered(list, start_date, end_date, time_analysis, start_time, end_time) ==
    LET byStart == IF start_date # NoFilter
                   THEN SelectSeq(list, LAMBDA p :
                           DateOf(p.timestamp[2]) >= start_date)
                   ELSE list
        byEnd   == IF end_date # NoFilter
                   THEN SelectSeq(byStart, LAMBDA p :
                           DateOf(p.timestamp[2]) <= end_date)
                   ELSE byStart
    IN  IF time_analysis = "Within Day Analysis"
           /\ start_time # NoFilter /\ end_time # NoFilter
        THEN SelectSeq(byEnd, LAMBDA p :
                /\ TimeOf(p.timestamp[2]) >= start_time
                /\ TimeOf(p.timestamp[2]) <= end_time)
        ELSE byEnd

FirstN(h, n) == IF Len(h) <= n THEN h ELSE SubSeq(h, 1, n)
PredictionsOf(rows) == [i \in DOMAIN rows |-> rows[i].prediction[2]]
\* a > b for two means held as fractions
MeanAbove(a, b) == a.num * b.den > b.num * a.den

\* param_data[param]: the reading of the parameter in every row of the
\* frame (the records analysed hold every selected parameter)
SeriesOf(df, param) == [i \in DOMAIN df |-> df[i].sensor_values[param]]

\* n * (n - 1) times the sample variance of the series, an integer:
\* n * sum(y^2) - sum(y)^2 for the readings y taken relative to the first
\* one (the variance does not change when every reading is shifted alike)
PairSum(s) ==
    IF Len(s) <= 1 THEN 0
    ELSE LET y == [i \in DOMAIN s |-> s[i] - s[1]]
         IN  Len(s) * SumSeq([i \in DOMAIN y |-> y[i] * y[i]]) - SumSeq(y) * SumSeq(y)

\* current > ranges['critical_high'] * 0.9, readings in hundredths
ApproachingHigh(param, current) ==
    current * 10 > STORAGE_SENSOR_RANGES[param].critical_high * 9

\* current < ranges['critical_low'] * 1.1
ApproachingLow(param, current) ==
    current * 10 < STORAGE_SENSOR_RANGES[param].critical_low * 11

\* the low test made on the magnitudes of the two numbers
CriticalIssuesByMagnitude(param, current) ==
    IF ApproachingHigh(param, current)
    THEN <<[kind |-> "approaching_high", param |-> param]>>
    ELSE IF Abs(current) * 10 < Abs(STORAGE_SENSOR_RANGES[param].critical_low) * 11
    THEN <<[kind |-> "approaching_low", param |-> param]>>
    ELSE <<>>

\* lines 209-225: the issue recorded for the parameter's current value
CriticalIssues(param, current) ==
    IF ApproachingHigh(param, current)
    THEN <<[kind |-> "approaching_high", param |-> param]>>
    ELSE IF ApproachingLow(param, current)
    THEN <<[kind |-> "approaching_low", param |-> param]>>
    ELSE <<>>

\* abs(current - mean) > 2 * std with the sample standard deviation, compared
\* through the squares: (n*current - sum)^2 * (n - 1) > 4 * n * PairSum; the
\* deviation of a single row is NaN and the comparison False
Deviates(series) ==
    LET n == Len(series)
        d == n * series[n] - SumSeq(series)
    IN  n > 1 /\ d * d * (n - 1) > 4 * n * PairSum(series)

RECURSIVE Concat(_)
Concat(ss) == IF ss = <<>> THEN <<>> ELSE Head(ss) \o Concat(Tail(ss))

RECURSIVE SeqMax(_)
SeqMax(s) == IF Len(s) = 1 THEN s[1] ELSE Max(s[1], SeqMax(Tail(s)))
RECURSIVE SeqMin(_)
SeqMin(s) == IF Len(s) = 1 THEN s[1] ELSE Min(s[1], SeqMin(Tail(s)))

\* the recommendations the loop appends for one parameter: the role decides
\* which of the findings is answered
LoopRecommendations(param, series, role) ==
    LET current == series[Len(series)]
        issues  == CriticalIssues(param, current)
    IN  (IF issues # <<>> /\ issues[1].kind = "approaching_high"
            /\ role = "plant_manager"
         THEN <<[kind |-> "urgent_high", param |-> param]>>
         ELSE IF issues # <<>> /\ issues[1].kind = "approaching_low"
                 /\ role = "maintenance_engineer"
         THEN <<[kind |-> "inspect_low", param |-> param]>>
         ELSE <<>>)
        \o (IF Deviates(series) /\ role = "ml_engineer"
            THEN <<[kind |-> "statistical_anomaly", param |-> param]>>
            ELSE <<>>)

\* lines 244-258: the recommendations added after the loop
ClosingRecommendations(critical_issues, role) ==
    IF role = "plant_manager" /\ critical_issues # <<>>
    THEN <<[kind |-> "schedule_maintenance", param |-> ""]>>
    ELSE IF role = "maintenance_engineer"
    THEN [i \in DOMAIN critical_issues |->
            [kind |-> "diagnostic", param |-> critical_issues[i].param]]
    ELSE IF role = "ml_engineer" /\ Len(critical_issues) > 2
    THEN <<[kind |-> "retrain", param |-> ""]>>
    ELSE <<>>

\* _generate_trend_report(df, param_data, role): the columns that are not in
\* the range table are skipped; the variance stands for 'std', as the
\* fraction PairSum / (n * (n - 1)), undefined for a single row
GenerateTrendReport(df, parameters, role) ==
    LET known == SelectSeq(parameters, LAMBDA param : param \in DOMAIN STORAGE_SENSOR_RANGES)
        series(k) == SeriesOf(df, known[k])
        current(k) == series(k)[Len(df)]
        critical_issues ==
            Concat([k \in DOMAIN known |-> CriticalIssues(known[k], current(k))])
    IN  [summary |->
            Concat([k \in DOMAIN known |->
                      IF Deviates(series(k))
                      THEN <<[kind |-> "deviation", param |-> known[k]]>>
                      ELSE <<>>]),
         recommendations |->
            Concat([k \in DOMAIN known |->
                      LoopRecommendations(known[k], series(k), role)])
            \o ClosingRecommendations(critical_issues, role),
         critical_issues |-> critical_issues,
         detailed_analysis |->
            [k \in DOMAIN known |->
                [parameter |-> known[k],
                 current_value |-> current(k),
                 mean |-> Mean(series(k)),
                 variance |-> [num |-> PairSum(series(k)),
                               den |-> Len(df) * (Len(df) - 1)],
                 max |-> SeqMax(series(k)),
                 min |-> SeqMin(series(k)),
                 unit |-> STORAGE_SENSOR_RANGES[known[k]].unit]]]

\* abs(change_pct) > 10 for change_pct = (recent_mean - overall_mean) /
\* overall_mean * 100, and the sign of change_pct; a zero overall mean gives
\* an infinite change unless the recent mean is zero too
PercentChange(series) ==
    LET recent == LastN(series, RECENT_ROWS)
        d == SumSeq(recent) * Len(series) - SumSeq(series) * Len(recent)
        overall == SumSeq(series)
    IN  [exceeds |-> Abs(d) * 10 > Abs(overall) * Len(recent),
         positive |-> IF overall = 0 THEN SumSeq(recent) > 0
                      ELSE (d > 0) = (overall > 0) /\ d # 0]

\* lines 140-157: the explanations, none for a single row
Explanations(df, parameters) ==
    IF Len(df) <= 1 THEN <<>>
    ELSE (IF MeanAbove(Mean(LastN(PredictionsOf(df), RECENT_ROWS)),
                       Mean(PredictionsOf(df)))
          THEN <<[kind |-> "reliability", param |-> ""]>>
          ELSE <<>>)
         \o Concat([k \in DOMAIN parameters |->
                      LET change == PercentChange(SeriesOf(df, parameters[k]))
                      IN  IF change.exceeds
                          THEN <<[kind |-> IF change.positive THEN "increased"
                                           ELSE "decreased",
                                  param |-> parameters[k]]>>
                          ELSE <<>>])

\* the comparison made on the last and first RECENT_ROWS rows
TrendDirectionRecentRows(prediction) ==
    IF MeanAbove(Mean(LastN(prediction, RECENT_ROWS)),
                 Mean(FirstN(prediction, RECENT_ROWS)))
    THEN "deteriorating" ELSE "improving"

\* line 168: tail(50).mean() > head(50).mean()
TrendDirection(prediction) ==
    IF MeanAbove(Mean(LastN(prediction, TREND_ROWS)),
                 Mean(FirstN(prediction, TREND_ROWS)))
    THEN "deteriorating" ELSE "improving"

\* get_trend_analysis; the two plots are opaque; q holds the keyword
\* arguments start_date, end_date, parameters (<<>> for None),
\* time_analysis, start_time and end_time
GetTrendAnalysis(list, role, q) ==
    IF list = <<>> THEN Returned([status |-> "no_data"])
    ELSE IF \E i \in DOMAIN list : ~Parses(list[i].timestamp)
    THEN Raised("ValueError")
    ELSE
      LET df == Filtered(list, q.start_date, q.end_date, q.time_analysis,
                         q.start_time, q.end_time)
          prediction == PredictionsOf(df)
      IN  IF Len(df) = 0 THEN Returned([status |-> "no_data"])
          ELSE Returned(
             [status |-> "success",
              total_predictions |-> Len(df),
              failure_count |-> SumSeq(prediction),
              failure_rate |-> Mean(prediction),
              trend_direction |-> TrendDirection(prediction),
              parameter_plot |-> "figure",
              correlation_plot |-> "figure",
              role_specific_insights |-> Explanations(df, q.parameters),
              detailed_analysis |-> GenerateTrendReport(df, q.parameters, role)])

MaxSaved == 2   \* predictions held by the StorageManager in one run

save_prediction(prediction_data, io) ==
    LET out == SavePrediction(predictions, storage_file, prediction_data,
                              StorageNow, io) IN
    /\ Len(out.predictions) <= MaxSaved
    /\ UNCHANGED callerVars
    /\ call' = [op |-> "save_prediction", prediction_data |-> prediction_data]
    /\ predictions' = out.predictions
    /\ storage_file' = out.file
    /\ ret' = Returned(out.ret)
    /\ UNCHANGED <<monitorVars, validatorVars, sessionVars>>

get_all_predictions ==
    /\ UNCHANGED callerVars
    /\ call' = [op |-> "get_all_predictions"]
    /\ ret' = Returned(predictions)
    /\ UNCHANGED <<monitorVars, validatorVars, storageVars, sessionVars>>

get_recent_predictions(hours) ==
    /\ UNCHANGED callerVars
    /\ call' = [op |-> "get_recent_predictions", hours |-> hours]
    /\ ret' = GetRecentPredictions(predictions, hours, StorageNow)
    /\ UNCHANGED <<monitorVars, validatorVars, storageVars, sessionVars>>

get_trend_analysis(role, q) ==
    /\ UNCHANGED callerVars
    /\ call' = [op |-> "get_trend_analysis", role |-> role, q |-> q]
    /\ ret' = GetTrendAnalysis(predictions, role, q)
    /\ UNCHANGED <<monitorVars, validatorVars, storageVars, sessionVars>>

\* what predict_with_explanation returns for one row: the class and the
\* probability of that class, in hundredths
ORACLE_OUTPUTS == {[prediction |-> 0, probability |-> 97],
                   [prediction |-> 1, probability |-> 62]}

\* the record the batch path builds for one row of the uploaded file
BatchResult(timestamp, snapshot, oracle, quality_report) ==
    [timestamp |-> timestamp,
     prediction |-> PyInt(oracle.prediction),
     \* float(probability[0])
     probability |-> PyFloat(oracle.probability),
     sensor_values |-> snapshot,
     data_quality_score |-> quality_report.data_quality_score,
     quality_factors |-> quality_report.quality_factors,
     explanation_text |-> PyText]

\* one pass of the loop over the uploaded rows: the row's timestamp column,
\* when the file has one, is taken out of the snapshot
analyze_uploaded_row(row, role, oracle, io) ==
    LET has_timestamp == "timestamp" \in DOMAIN row
        timestamp == IF has_timestamp THEN row["timestamp"]
                     ELSE IsoTime(StorageNow)
        snapshot  == [k \in DOMAIN row \ {"timestamp"} |-> row[k]]
        quality_report == GenerateDataQualityReport(snapshot, role, Now)
        result == BatchResult(timestamp, snapshot, oracle, quality_report)
        out == SavePrediction(predictions, storage_file, result,
                              StorageNow, io)
    IN  /\ Len(out.predictions) <= MaxSaved
        /\ UNCHANGED callerVars
        /\ call' = [op |-> "analyze_uploaded_row", row |-> row, role |-> role]
        /\ alerts' = quality_report.alerts
        /\ predictions' = out.predictions
        /\ storage_file' = out.file
        /\ ret' = Returned(out.ret)
        /\ UNCHANGED <<monitorVars, sensor_values, sessionVars>>

\* the Run Diagnostic button: the report of the snapshot on screen and the
\* oracle's answer are kept in the session; probability is the list the
\* oracle returned, with its one entry
run_diagnostic(role, oracle) ==
    LET data_quality_report ==
            GenerateDataQualityReport(sensor_values, role, Now) IN
    /\ UNCHANGED callerVars
    /\ call' = [op |-> "run_diagnostic", role |-> role]
    /\ alerts' = data_quality_report.alerts
    /\ prediction_made' = TRUE
    /\ prediction_result' =
          [pred_label |-> IF oracle.prediction = 1 THEN "FAILURE" ELSE "NORMAL",
           probability |-> PyList(<<PyFloat(oracle.probability)>>),
           explanation_text |-> PyText,
           shap_image_path |-> PyText,
           sensor_values |-> sensor_values,
           prediction |-> PyInt(oracle.prediction),
           data_quality_score |-> data_quality_report.data_quality_score,
           role |-> role,
           alerts |-> data_quality_report.alerts]
    /\ ret' = Returned(TRUE)
    /\ UNCHANGED <<monitorVars, sensor_values, storageVars>>

\* the copy of the session's result the Save Prediction button hands to
\* save_prediction: prediction as int, probability as [float(p) for p in
\* ...], data_quality_score as float; the copy has no timestamp
ManualResult(result) ==
    [k \in DOMAIN result |->
        IF k = "probability" THEN PyList(Items(result[k])) ELSE result[k]]

\* the Save Prediction button, enabled once a diagnostic has run
save_prediction_button(io) ==
    /\ prediction_made
    /\ prediction_result # NoResult
    /\ LET result == ManualResult(prediction_result)
           out == SavePrediction(predictions, storage_file, result,
                                 StorageNow, io)
       IN  /\ Len(out.predictions) <= MaxSaved
           /\ UNCHANGED callerVars
           /\ call' = [op |-> "save_prediction_button"]
           /\ predictions' = out.predictions
           /\ storage_file' = out.file
           /\ ret' = Returned(out.ret)
           /\ prediction_made' = IF out.ret THEN FALSE ELSE prediction_made
           /\ UNCHANGED <<monitorVars, validatorVars, prediction_result>>

\* rows of uploaded files, each with the answer the oracle gives for it:
\* one from a file with a timestamp column, one from a file without
UPLOADED_ROWS ==
    {[row |-> [timestamp |-> IsoTime(0), TP2 |-> 800, TP3 |-> 900,
               Oil_level |-> 0],
      oracle |-> [prediction |-> 0, probability |-> 97]],
     [row |-> [TP2 |-> 100, TP3 |-> 900, Oil_level |-> 1],
      oracle |-> [prediction |-> 1, probability |-> 62]]}

\* payloads handed to save_prediction directly: one lacking a required
\* field, one that is no dict, one complete with a timestamp that is no
\* date, one complete without a timestamp
DIRECT_PAYLOADS ==
    {[prediction |-> PyInt(1), sensor_values |-> <<>>],
     NoDict,
     [timestamp |-> PyText, prediction |-> PyInt(0),
      probability |-> PyFloat(80), sensor_values |-> <<>>],
     [prediction |-> PyInt(1), probability |-> PyFloat(70),
      sensor_values |-> <<>>]}

\* trend queries: no filter, a start date, an end date, a time-of-day window
TREND_QUERIES ==
    {[start_date |-> NoFilter, end_date |-> NoFilter,
      parameters |-> <<>>, time_analysis |-> "Daily Overview",
      start_time |-> NoFilter, end_time |-> NoFilter],
     [start_date |-> 1, end_date |-> NoFilter,
      parameters |-> <<>>, time_analysis |-> "Daily Overview",
      start_time |-> NoFilter, end_time |-> NoFilter],
     [start_date |-> NoFilter, end_date |-> 1,
      parameters |-> <<>>, time_analysis |-> "Daily Overview",
      start_time |-> NoFilter, end_time |-> NoFilter],
     [start_date |-> NoFilter, end_date |-> NoFilter,
      parameters |-> <<>>, time_analysis |-> "Within Day Analysis",
      start_time |-> 1, end_time |-> 12]}

\* a history file left by an earlier session
EARLIER_FILES ==
    {NoFile,
     Partial,
     Written(<<[timestamp |-> IsoTime(0), prediction |-> PyInt(1),
                probability |-> PyFloat(55), sensor_values |-> <<>>]>>, 1)}

InitStorage ==
    /\ prediction_history = <<>>
    /\ accepted = <<>>
    /\ call = NoCall
    /\ ret = Returned(FALSE)
    /\ sensor_values = SCENARIO
    /\ alerts = <<>>
    /\ storage_file \in EARLIER_FILES
    /\ predictions = LoadHistory(storage_file)
    /\ SessionStarted
    /\ NoCallers

NextStorage ==
    \/ \E d \in DIRECT_PAYLOADS, io \in IO_OUTCOMES : save_prediction(d, io)
    \/ get_all_predictions
    \/ get_recent_predictions(HOURS_PER_DAY)
    \/ \E q \in TREND_QUERIES : get_trend_analysis("plant_manager", q)
    \/ \E u \in UPLOADED_ROWS, io \in IO_OUTCOMES :
          analyze_uploaded_row(u.row, "plant_manager", u.oracle, io)
    \/ \E oracle \in ORACLE_OUTPUTS : run_diagnostic("plant_manager", oracle)
    \/ \E io \in IO_OUTCOMES : save_prediction_button(io)

SpecStorage == InitStorage /\ [][NextStorage]_vars

----------------------------------------------------------------------------
(* Claims about the persisted log, under SpecStorage *)

SAVE_PATHS == {"analyze_uploaded_row", "save_prediction_button"}

C20_ScalarProbability ==
    [][ (call'.op \in SAVE_PATHS /\ Len(predictions') > Len(predictions))
        => LET record == predictions'[Len(predictions')]
           IN  /\ TypeOf(record.probability) = "float"
               /\ record.probability[2] \in 0..100
      ]_vars

(***************************************************************************)
(* The tiers of the shipped range table (SpecValidator)                    *)
(***************************************************************************)

\* a validate_sensor_reading call on a sensor of the table
TableCall ==
    call.op = "validate_sensor_reading" /\ call.sensor_name \in DOMAIN SENSOR_RANGES

\* the part of the statement both readings of C29 share: above critical_high
\* every sensor but Oil_temperature is critical, the warning above the normal
\* range is given to Oil_temperature only, and Motor_current is never warned
\* as low
TiersAboveAndBelow ==
    LET e   == SENSOR_RANGES[call.sensor_name]
        v   == call.value
        out == ret.value
    IN  /\ ret.raised = ""
        /\ (call.sensor_name # "Oil_temperature" /\ v > e.critical_high)
              => out.status = "critical"
        /\ out.message = "WARNING: above normal range"
              => call.sensor_name = "Oil_temperature"
        /\ (call.sensor_name = "Oil_temperature" /\ v > e.max /\ v <= e.critical_high)
              => out.message = "WARNING: above normal range"
        /\ call.sensor_name = "Motor_current"
              => out.message # "WARNING: below normal range"

C30_ExtremeIsCritical ==
    Scored
    => LET out == ret.value
           extreme == {s \in Ranged(sensor_values) :
                          2 * sensor_values[s] > 3 * SENSOR_RANGES[s].max - SENSOR_RANGES[s].min}
       IN  /\ out.details.extreme_values = Cardinality(extreme)
           /\ out.details.critical_violations >= out.details.extreme_values
           /\ out.component_scores.signal_stability < 100
                 => /\ out.details.extreme_values >= 1
                    /\ out.component_scores.range_compliance <= 60

\* a score computed for a snapshot whose Motor_current reading is the first
\* hundredth counted as extreme: one extreme value, one critical violation
C30_Witness ==
    /\ Scored
    /\ "Motor_current" \in DOMAIN sensor_values
    /\ sensor_values["Motor_current"] = 1351
    /\ ret.value.component_scores.signal_stability = 80
    /\ ret.value.details.extreme_values = 1
    /\ ret.value.details.critical_violations = 1
    /\ ret.value.component_scores.range_compliance = 60

(***************************************************************************)
(* Rejected and failed saves; the monitor in the application (SpecStorage) *)
(***************************************************************************)

\* whether the record handed to save_prediction has the three required fields
Complete(prediction_data) ==
    IsDict(prediction_data) /\ STORAGE_REQUIRED_FIELDS \subseteq DOMAIN prediction_data

\* whether the history file holds exactly the list in memory
OnDisk ==
    /\ storage_file.exists
    /\ storage_file.readable
    /\ Len(storage_file.predictions) = Len(predictions)
    /\ \A i \in DOMAIN predictions : storage_file.predictions[i] = predictions[i]

\* C28: each save_prediction call lengthens the list by one exactly when its
\* record contained 'prediction', 'probability' and 'sensor_values' (so the
\* length after any sequence of calls is the initial length plus the number
\* of such calls): a call rejected for a missing field returns False and
\* leaves the list unchanged, a call whose file write fails also returns
\* False while its record stays appended, and a later get_trend_analysis
\* counts every record of the list, written or not.
C28_FailedWriteKeepsRecord ==
    [][ /\ call'.op = "save_prediction"
           => LET d == call'.prediction_data
              IN  /\ ret'.raised = ""
                  /\ Len(predictions') = Len(predictions) + (IF Complete(d) THEN 1 ELSE 0)
                  /\ ~Complete(d) => (ret'.value = FALSE /\ predictions' = predictions)
                  /\ Complete(d)
                        => /\ \A k \in DOMAIN d : predictions'[Len(predictions')][k] = d[k]
                           /\ ret'.value = TRUE <=> OnDisk'
        /\ (call'.op = "get_trend_analysis" /\ ret'.raised = ""
               /\ call'.q.start_date = NoFilter /\ call'.q.end_date = NoFilter
               /\ call'.q.time_analysis # "Within Day Analysis")
           => IF predictions = <<>> THEN ret'.value.status = "no_data"
              ELSE ret'.value.total_predictions = Len(predictions)
      ]_vars

\* a trend analysis that counts two records of which the file, never
\* written since the session began, holds none or one
C28_Witness ==
    /\ call.op = "get_trend_analysis"
    /\ ret.raised = ""
    /\ ret.value.status = "success"
    /\ ret.value.total_predictions = 2
    /\ Len(predictions) = 2
    /\ ~OnDisk
    /\ storage_file \in EARLIER_FILES

\* C27: in the application every completed inference and scoring cycle (a
\* batch row analysed and saved, or Run Diagnostic followed by Save
\* Prediction) has its outcome logged to the OperationalMonitor through
\* log_prediction, so the monitor's history grows.
C27_OutcomeLogged ==
    [][ (call'.op \in SAVE_PATHS /\ Len(predictions') > Len(predictions))
        => /\ Len(accepted') = Len(accepted) + 1
           /\ prediction_history' # prediction_history
      ]_vars

----------------------------------------------------------------------------
(* Concurrent callers of log_prediction (operational_monitor.py 24-58)      *)
(*                                                                         *)
(* Several threads call log_prediction on one OperationalMonitor.  The      *)
(* interpreter may switch threads between any two of the steps below: the  *)
(* append of line 49, the length test of line 52, the slice read on the    *)
(* right of line 53 and the assignment on its left.  The code takes no     *)
(* lock; mutex.exclusive tells whether the callers themselves serialise    *)
(* their calls.                                                            *)

CALLERS == {"a", "b"}
MaxConcurrent == 3   \* calls begun beyond a history of MAX_HISTORY records

\* the payload of the k-th call: complete, with its own timestamp
ConcurrentPayload(k) ==
    [prediction |-> PyInt(k % 2), probability |-> PyFloat(90),
     sensor_values |-> "snapshot", timestamp |-> k]

\* the history n earlier calls have left
EarlierHistory(n) == [i \in 1..n |-> CleanedData(ConcurrentPayload(i)).value]

\* a caller outside log_prediction
Idle == [pc |-> "idle", cleaned_data |-> NoDict, slice |-> <<>>]

\* nobody is inside log_prediction
Quiescent == \A t \in DOMAIN callers : callers[t].pc = "idle"

\* the calls begun so far that passed the field test
Started ==
    Len(accepted) + Cardinality({t \in DOMAIN callers : callers[t].pc = "append"})

\* whether caller t may begin a call: always when the callers take no lock,
\* and only while no other call is in progress when they do
MayEnter(t) == mutex.exclusive => mutex.holder = "none"

\* the lock after caller t has begun, and after it has returned
Acquired(t) == IF mutex.exclusive THEN [mutex EXCEPT !.holder = t] ELSE mutex
Released == [mutex EXCEPT !.holder = "none"]

\* the slice taken from the front: [:1000]
SliceOldest(h) == FirstN(h, MAX_HISTORY)

\* self.prediction_history[-1000:], the right-hand side of line 53
Slice(h) == LastN(h, MAX_HISTORY)

\* lines 26-47: the field test and cleaned_data; a rejected payload returns
\* False at once
enter(t, prediction_data) ==
    LET c == CleanedData(prediction_data) IN
    /\ callers[t].pc = "idle"
    /\ MayEnter(t)
    /\ Started < MAX_HISTORY + MaxConcurrent
    /\ call' = [op |-> "log_prediction", caller |-> t,
                prediction_data |-> prediction_data]
    /\ IF c.raised = ""
       THEN /\ callers' = [callers EXCEPT ![t] =
                             [pc |-> "append", cleaned_data |-> c.value,
                              slice |-> <<>>]]
            /\ mutex' = Acquired(t)
            /\ UNCHANGED ret
       ELSE /\ ret' = Returned(FALSE)
            /\ UNCHANGED callerVars
    /\ UNCHANGED <<monitorVars, validatorVars, storageVars, sessionVars>>

\* line 49: self.prediction_history.append(cleaned_data)
append_record(t) ==
    /\ callers[t].pc = "append"
    /\ prediction_history' = Append(prediction_history, callers[t].cleaned_data)
    /\ accepted' = Append(accepted, callers[t].cleaned_data)
    /\ callers' = [callers EXCEPT ![t].pc = "check"]
    /\ UNCHANGED <<call, ret, mutex, validatorVars, storageVars, sessionVars>>

\* line 52: if len(self.prediction_history) > 1000
check_length(t) ==
    /\ callers[t].pc = "check"
    /\ callers' = [callers EXCEPT ![t].pc =
                      IF Len(prediction_history) > MAX_HISTORY
                      THEN "slice" ELSE "return"]
    /\ UNCHANGED <<call, ret, mutex, monitorVars, validatorVars, storageVars, sessionVars>>

\* line 53, right-hand side: the new list is built from the list as it is now
read_slice(t) ==
    /\ callers[t].pc = "slice"
    /\ callers' = [callers EXCEPT ![t].pc = "assign",
                                  ![t].slice = Slice(prediction_history)]
    /\ UNCHANGED <<call, ret, mutex, monitorVars, validatorVars, storageVars, sessionVars>>

\* line 53, left-hand side: the attribute is bound to the new list
assign_slice(t) ==
    /\ callers[t].pc = "assign"
    /\ prediction_history' = callers[t].slice
    /\ callers' = [callers EXCEPT ![t].pc = "return", ![t].slice = <<>>]
    /\ UNCHANGED <<accepted, call, ret, mutex, validatorVars, storageVars, sessionVars>>

\* line 54: return True
return_true(t) ==
    /\ callers[t].pc = "return"
    /\ call' = [op |-> "log_prediction", caller |-> t, returned |-> callers[t].cleaned_data]
    /\ ret' = Returned(TRUE)
    /\ callers' = [callers EXCEPT ![t] = Idle]
    /\ mutex' = Released
    /\ UNCHANGED <<monitorVars, validatorVars, storageVars, sessionVars>>

\* the monitor has logged MAX_HISTORY - 1 or MAX_HISTORY records when the
\* callers start, and they either serialise their calls or do not
InitConcurrent ==
    /\ \E n \in {MAX_HISTORY - 1, MAX_HISTORY} :
          /\ prediction_history = EarlierHistory(n)
          /\ accepted = EarlierHistory(n)
    /\ call = NoCall
    /\ ret = Returned(FALSE)
    /\ callers = [t \in CALLERS |-> Idle]
    /\ mutex \in [exclusive : BOOLEAN, holder : {"none"}]
    /\ ValidatorConstructed
    /\ StorageConstructed
    /\ SessionStarted

NextConcurrent ==
    \E t \in CALLERS :
       \/ \E d \in {ConcurrentPayload(Started + 1), RETRIED} : enter(t, d)
       \/ append_record(t)
       \/ check_length(t)
       \/ read_slice(t)
       \/ assign_slice(t)
       \/ return_true(t)

SpecConcurrent == InitConcurrent /\ [][NextConcurrent]_vars

\* C26: the append and the truncation of log_prediction are separate steps,
\* so callers that interleave them without mutual exclusion can lose a
\* record whose call returned True although it is among the 1000 most
\* recent; when every call runs under the callers' mutual exclusion the
\* history is, in every interleaving, the most recent 1000 records accepted
\* (with the record just appended beside them while a call is in progress).
C26_ExclusiveFifo ==
    mutex.exclusive
    => /\ LastN(prediction_history, MAX_HISTORY) = LastN(accepted, MAX_HISTORY)
       /\ Len(prediction_history) <= MAX_HISTORY + 1
       /\ Quiescent => prediction_history = LastN(accepted, MAX_HISTORY)

\* without mutual exclusion: every call has returned, the last one True, and
\* the most recent record accepted is not in the history
C26_Witness ==
    /\ ~mutex.exclusive
    /\ callers # <<>>
    /\ Quiescent
    /\ call.op = "log_prediction"
    /\ ret = Returned(TRUE)
    /\ Len(accepted) > MAX_HISTORY
    /\ \A i \in DOMAIN prediction_history :
          prediction_history[i].timestamp # accepted[Len(accepted)].timestamp

----------------------------------------------------------------------------
(* Trend analysis over a populated log (SpecTrend)                          *)
(*                                                                         *)
(* The log is what earlier sessions stored; get_trend_analysis is called   *)
(* on it with every role and a family of filters and parameter selections. *)
(* Readings are multiples of 0.25, so that every sum of readings is exact  *)
(* in doubles and no comparison of the code falls on a rounding boundary.  *)

\* one stored record: a timestamp, the class predicted and the readings of
\* two analog sensors and a digital one
TrendRow(timestamp, p, tp2, dv) ==
    [timestamp |-> timestamp, prediction |-> PyInt(p),
     probability |-> PyFloat(90),
     sensor_values |-> [TP2 |-> tp2, DV_pressure |-> dv, COMP |-> p]]

\* records of four moments on three days: TP2 normal, near its critical
\* high, at its critical low, just under nine tenths of its critical high;
\* DV_pressure zero, below its negative critical low, normal, near its
\* critical high; and a record whose timestamp is no date
ROW_KINDS ==
    {TrendRow(IsoTime(29), 0, 800, 0),
     TrendRow(IsoTime(37), 1, 900, -25),
     TrendRow(IsoTime(53), 0, 200, 50),
     TrendRow(IsoTime(72), 1, 850, 225),
     TrendRow(PyText, 0, 800, 0)}

MaxRows == 2   \* rows of a log made of arbitrary records

\* every log of up to n records of the kinds above
RECURSIVE ShortLogs(_)
ShortLogs(n) ==
    IF n = 0 THEN {<<>>}
    ELSE LET shorter == ShortLogs(n - 1)
         IN  shorter \cup {Append(h, r) : h \in {g \in shorter : Len(g) = n - 1}, r \in ROW_KINDS}

\* a log of n hourly records from hour 25 on: TP2 reads early in every row
\* before the last ten, 8.0 afterwards and final in the last row;
\* DV_pressure reads -0.25 where TP2 reads early below 8.0 and 0.5
\* elsewhere; the last failing rows predict a failure
SteadyLog(n, early, final, failing) ==
    [i \in 1..n |->
        TrendRow(IsoTime(HOURS_PER_DAY + i),
                 IF i > n - failing THEN 1 ELSE 0,
                 IF i = n THEN final ELSE IF i <= n - RECENT_ROWS THEN early ELSE 800,
                 IF i <= n - RECENT_ROWS /\ early < 800 THEN -25 ELSE 50)]

STEADY_LENGTHS == {6, 12, 13}
SteadyLogs ==
    {SteadyLog(n, early, final, failing) :
        n \in STEADY_LENGTHS, early \in {200, 800}, final \in {800, 900, 500},
        failing \in {0, 1}}

\* a log of n hourly records from hour 1 on, all readings normal, in which
\* the first head and the last tail records predict a failure
LongLog(n, head, tail) ==
    [i \in 1..n |->
        TrendRow(IsoTime(i), IF i <= head \/ i > n - tail THEN 1 ELSE 0, 800, 0)]

LONG_LENGTHS == {50, 51, 101}
LongLogs ==
    {LongLog(n, head, tail) : n \in LONG_LENGTHS, head \in {0, 1}, tail \in {0, 1, 2}}

\* the filters of a query: none; a range of dates; one end only; a window of
\* the day, alone and with a start date; a start time without an end time;
\* times given with the daily overview
TREND_FILTERS ==
    {[start_date |-> NoFilter, end_date |-> NoFilter,
      time_analysis |-> "Daily Overview", start_time |-> NoFilter, end_time |-> NoFilter],
     [start_date |-> 1, end_date |-> 2,
      time_analysis |-> "Daily Overview", start_time |-> NoFilter, end_time |-> NoFilter],
     [start_date |-> 2, end_date |-> NoFilter,
      time_analysis |-> "Daily Overview", start_time |-> NoFilter, end_time |-> NoFilter],
     [start_date |-> NoFilter, end_date |-> 1,
      time_analysis |-> "Daily Overview", start_time |-> NoFilter, end_time |-> NoFilter],
     [start_date |-> NoFilter, end_date |-> NoFilter,
      time_analysis |-> "Within Day Analysis", start_time |-> 5, end_time |-> 12],
     [start_date |-> 1, end_date |-> NoFilter,
      time_analysis |-> "Within Day Analysis", start_time |-> 6, end_time |-> 13],
     [start_date |-> NoFilter, end_date |-> NoFilter,
      time_analysis |-> "Within Day Analysis", start_time |-> 6, end_time |-> NoFilter],
     [start_date |-> NoFilter, end_date |-> NoFilter,
      time_analysis |-> "Daily Overview", start_time |-> 6, end_time |-> 12]}

\* the parameters selected: none, one, and three of which one is not in the
\* range table
TREND_PARAMETERS == {<<>>, <<"TP2">>, <<"DV_pressure", "COMP", "TP2">>}

\* the keyword arguments of a call
TrendQuery(f, parameters) ==
    [start_date |-> f.start_date, end_date |-> f.end_date,
     parameters |-> parameters, time_analysis |-> f.time_analysis,
     start_time |-> f.start_time, end_time |-> f.end_time]

InitTrend ==
    /\ prediction_history = <<>>
    /\ accepted = <<>>
    /\ call = NoCall
    /\ ret = Returned(FALSE)
    /\ predictions \in ShortLogs(MaxRows) \cup SteadyLogs \cup LongLogs
    /\ storage_file = Written(predictions, 0)
    /\ ValidatorConstructed
    /\ SessionStarted
    /\ NoCallers

\* one analysis of the log per run: the analysis changes nothing it reads,
\* so a second call would reach no state that a first call does not
NextTrend ==
    /\ call = NoCall
    /\ \E role \in ROLES \cup {"auditor"}, f \in TREND_FILTERS, parameters \in TREND_PARAMETERS :
          get_trend_analysis(role, TrendQuery(f, parameters))

SpecTrend == InitTrend /\ [][NextTrend]_vars

(***************************************************************************)
(* Claims about the trend analysis, under SpecTrend                        *)
(***************************************************************************)

\* a trend analysis of a log whose timestamps all parse, asked with both
\* ends of the time window or with neither
TrendCall ==
    /\ call.op = "get_trend_analysis"
    /\ \A i \in DOMAIN predictions : Parses(predictions[i].timestamp)
    /\ (call.q.start_time = NoFilter) = (call.q.end_time = NoFilter)

\* whether the record passes the filters of the call, as C21 words them
Selected(p) ==
    LET q == call.q
        t == p.timestamp[2]
    IN  /\ q.start_date # NoFilter => DateOf(t) >= q.start_date
        /\ q.end_date # NoFilter => DateOf(t) <= q.end_date
        /\ (q.time_analysis = "Within Day Analysis" /\ q.start_time # NoFilter)
              => (TimeOf(t) >= q.start_time /\ TimeOf(t) <= q.end_time)

\* the records of the log that pass, in log order
SelectedRows == SelectSeq(predictions, Selected)

\* the call's arguments with every filter taken off
Unfiltered ==
    [call.q EXCEPT !.start_date = NoFilter, !.end_date = NoFilter,
                   !.time_analysis = "Daily Overview",
                   !.start_time = NoFilter, !.end_time = NoFilter]

\* a trend analysis that returned a result
Analysed == TrendCall /\ ret.raised = "" /\ ret.value.status = "success"

\* C21: get_trend_analysis analyses exactly the records of the log whose
\* timestamp date lies in the inclusive range start_date..end_date and, only
\* when time_analysis is "Within Day Analysis", whose time of day lies in
\* the inclusive range start_time..end_time, in log order: its result is the
\* result of the unfiltered analysis of those records; it returns
\* {status: no_data}, and raises nothing, iff the log is empty or no record
\* passes the filter.
C21_FilteredRecords ==
    TrendCall
    => /\ ret.raised = ""
       /\ ret.value.status = "no_data" <=> SelectedRows = <<>>
       /\ ret.value.status \in {"no_data", "success"}
       /\ ret.value.status = "success"
             => /\ ret.value = GetTrendAnalysis(SelectedRows, call.role, Unfiltered).value
                /\ ret.value.total_predictions = Len(SelectedRows)

\* an analysis with a date range and a time window that keeps a record at
\* the inclusive end of the window and drops another record of the log
C21_Witness ==
    /\ Analysed
    /\ call.q.time_analysis = "Within Day Analysis"
    /\ call.q.start_date # NoFilter
    /\ Len(predictions) = 2
    /\ ret.value.total_predictions = 1
    /\ \E i \in DOMAIN predictions :
          Selected(predictions[i]) /\ TimeOf(predictions[i].timestamp[2]) = call.q.end_time

\* the failures among the rows from a to b
FailuresBetween(rows, a, b) ==
    Cardinality({i \in a..b : rows[i].prediction[2] = 1})

\* C22: trend_direction is 'deteriorating' iff the failure rate of the last
\* 50 records of the filtered set is strictly higher than the failure rate
\* of its first 50 records, and 'improving' otherwise; for every filtered
\* set of at most 50 records the two windows coincide and the result is
\* 'improving' whatever the predictions.
C22_TrendDirection ==
    Analysed
    => LET rows == SelectedRows
           n == Len(rows)
           m == Min(n, TREND_ROWS)
           higher == FailuresBetween(rows, n - m + 1, n) > FailuresBetween(rows, 1, m)
       IN  /\ ret.value.trend_direction = "deteriorating" <=> higher
           /\ ret.value.trend_direction = "improving" <=> ~higher
           /\ n <= TREND_ROWS => ret.value.trend_direction = "improving"

\* more than 50 records analysed, the last of them failures: deteriorating
C22_Witness ==
    /\ Analysed
    /\ ret.value.total_predictions > TREND_ROWS
    /\ ret.value.failure_count > 0
    /\ ret.value.trend_direction = "deteriorating"

\* the readings of a parameter in the records that pass the filters
SelectedSeries(param) == [i \in DOMAIN SelectedRows |-> SelectedRows[i].sensor_values[param]]

\* the parameters of the call that the range table knows
KnownParameters ==
    {call.q.parameters[k] : k \in DOMAIN call.q.parameters} \cap DOMAIN STORAGE_SENSOR_RANGES

\* current > 0.9 * critical_high or current < 1.1 * critical_low, the signed
\* numbers compared as they are (readings in hundredths)
Approaching(param) ==
    LET s == SelectedSeries(param)
        current == s[Len(s)]
        ranges == STORAGE_SENSOR_RANGES[param]
    IN  \/ 10 * current > 9 * ranges.critical_high
        \/ 10 * current < 11 * ranges.critical_low

\* |current - mean| > 2 * std for the sample standard deviation of two or
\* more readings: with S the sum of the n readings, both sides multiplied by
\* n^2 * (n - 1), (n*current - S)^2 * (n - 1) > 4 * sum((n*x - S)^2)
FarFromMean(param) ==
    LET s == SelectedSeries(param)
        n == Len(s)
        S == SumSeq(s)
        d == n * s[n] - S
    IN  /\ n > 1
        /\ d * d * (n - 1) > 4 * SumSeq([i \in DOMAIN s |-> (n * s[i] - S) * (n * s[i] - S)])

\* the entries of a list of the report that name the parameter
EntriesOf(list, param) == Cardinality({i \in DOMAIN list : list[i].param = param})

\* C23: in the trend report, for every selected parameter of the range
\* table, with current the last value of the filtered series, exactly one
\* critical issue is recorded iff current > 0.9 * critical_high or
\* current < 1.1 * critical_low (the signed value of critical_low used as it
\* is), and none otherwise; a statistical deviation entry is recorded iff
\* |current - mean| > 2 * std (never for a single record, whose deviation is
\* undefined).
C23_IssuesAndDeviations ==
    Analysed
    => LET report == ret.value.detailed_analysis
       IN  /\ \A param \in KnownParameters :
                /\ EntriesOf(report.critical_issues, param) = (IF Approaching(param) THEN 1 ELSE 0)
                /\ EntriesOf(report.summary, param) = (IF FarFromMean(param) THEN 1 ELSE 0)
           /\ \A i \in DOMAIN report.critical_issues : report.critical_issues[i].param \in KnownParameters
           /\ \A i \in DOMAIN report.summary : report.summary[i].param \in KnownParameters

\* a report over six or more records in which TP2 is both near its critical
\* high and far from its mean, while DV_pressure, at 0.5, raises nothing
C23_Witness ==
    /\ Analysed
    /\ call.q.parameters = <<"DV_pressure", "COMP", "TP2">>
    /\ ret.value.total_predictions >= 6
    /\ ret.value.detailed_analysis.critical_issues = <<[kind |-> "approaching_high", param |-> "TP2"]>>
    /\ ret.value.detailed_analysis.summary = <<[kind |-> "deviation", param |-> "TP2"]>>

\* C24: for each of the three roles every flag found (approaching-high,
\* approaching-low, statistical deviation) produces role-specific
\* recommendation text: a report with at least one flag has a non-empty
\* recommendations list, whichever of the three roles asks.
C24_EveryFlagRecommended ==
    (Analysed /\ call.role \in ROLES)
    => LET report == ret.value.detailed_analysis
       IN  (report.critical_issues # <<>> \/ report.summary # <<>>)
              => report.recommendations # <<>>

\* C25: role_specific_insights is the flat list of, in this order, (a) the
\* reliability warning when the last-10 failure rate exceeds the overall
\* rate of the filtered set, (b) one percent-change warning per parameter,
\* in parameter order, whose last-10 mean differs from the overall mean by
\* more than 10 %, (c) the aggregated recommendations of the per-parameter
\* deviation analysis.
C25_InsightsList ==
    Analysed
    => LET insights == ret.value.role_specific_insights
           aggregated == ret.value.detailed_analysis.recommendations
           n == Len(insights) - Len(aggregated)
       IN  /\ n >= 0
           /\ \A i \in 1..Len(aggregated) : insights[n + i] = aggregated[i]
           /\ \A i \in 1..n : insights[i].kind \in {"reliability", "increased", "decreased"}
           /\ \A i \in 2..n : insights[i].kind # "reliability"

====
